---------------------------- MODULE Spec2Model ----------------------------
(***************************************************************************)
(* Fleet operational risk dashboard: the scoring layer.                    *)
(*                                                                         *)
(*   calculateRisk           src/src/services/riskEngine.ts                *)
(*   getServiceInfo          src/src/services/maintenanceService.ts        *)
(*   serviceProgressPercent  src/src/services/maintenanceService.ts        *)
(*   evaluateFuelRisk        src/unnamed/part_004                          *)
(*   loadData                src/src/App.vue                               *)
(*   fetchEcoEvents, topFive src/unnamed/part_006                          *)
(*                                                                         *)
(* Times are instants in milliseconds, as Date.now() and Date.getTime()    *)
(* return them.  JavaScript's undefined and NaN are the two sentinels      *)
(* Undefined and NaN; every comparison with either of them is false.       *)
(***************************************************************************)
EXTENDS Integers, Sequences, FiniteSets, TLC

(***************************************************************************)
(* Bounds of the model.                                                    *)
(***************************************************************************)
MaxSeverity == 3
MaxEvents == 3
MaxWeatherBump == 2
MaxElapsedMin == 400
MaxIdLen == 2
MaxCalls == 3
MaxTicks == 1
MaxOvershootKm == 50
MaxSnapshots == 3
MaxCycles == 2
MaxAssessments == 6
MaxFuelCalls == 3
MaxFuelPoints == 2

(***************************************************************************)
(* JavaScript values.                                                      *)
(***************************************************************************)
Undefined == -1000001
NaN == -1000002

IsNumber(x) == x # Undefined /\ x # NaN

\* a > b of JavaScript: false as soon as one side converts to NaN
Gt(a, b) == IsNumber(a) /\ IsNumber(b) /\ a > b

MsPerMinute == 1000 * 60

\* new Date(ts).getTime(): the instant in ms, NaN for a missing or invalid date
DateGetTime(ts) == IF IsNumber(ts) THEN ts ELSE NaN

\* (now - lastUpdateTime) / (1000 * 60) is a real number; it is kept as the
\* exact difference in ms, and "minutesSinceUpdate > m" is decided on it
ElapsedMs(lastUpdateTime, nowMs) ==
    IF IsNumber(lastUpdateTime) THEN nowMs - lastUpdateTime ELSE NaN

\* the tiers decided on the floored minutes
MinutesSinceUpdateGtFloored(elapsed, m) ==
    IsNumber(elapsed) /\ elapsed \div (1000 * 60) > m

\* the tiers including their threshold
MinutesSinceUpdateGe(elapsed, m) ==
    IsNumber(elapsed) /\ elapsed >= m * (1000 * 60)

MinutesSinceUpdateGt(elapsed, m) == Gt(elapsed, m * MsPerMinute)

\* Math.floor(minutesSinceUpdate)
FloorMinutes(elapsed) ==
    IF IsNumber(elapsed) THEN elapsed \div MsPerMinute ELSE NaN

(***************************************************************************)
(* State.                                                                  *)
(***************************************************************************)
VARIABLES
    now,             \* Date.now(), ms
    vehicle,         \* the Vehicle handed to calculateRisk
    ecoEvents,       \* the EcoEvent[] handed to calculateRisk
    weatherData,     \* the optional WeatherData handed to calculateRisk
    weatherEnabled,  \* the weatherEnabled flag handed to calculateRisk
    riskResult,      \* <<>> before the call, <<assessment>> after it
    serviceLog,      \* the calls of getServiceInfo so far: id, instant, result
    ticks,           \* number of clock advances so far
    kmToService,     \* the remainingKm handed to serviceProgressPercent
    progressPercent, \* <<>> before the call, <<percent>> after it
    snapshots,       \* the FuelSnapshot[] handed to evaluateFuelRisk
    roundTieUp,      \* how binary floating point resolves a decimal tie in round1
    fuelResult,      \* <<>> before the call, <<FuelRiskResult>> after it
    assessments,     \* the assessments prop of the priority queue
    topFive,         \* <<>> before it is computed, <<items>> after
    weatherRiskEnabled, \* App.vue: the weather toggle
    loading,            \* App.vue: the loading indicator
    riskAssessments,    \* App.vue: the published AssessmentWithService[]
    cycles,             \* the calls of loadData: position, roster, tasks, result
    started,            \* number of calls of loadData so far
    publishedBy,        \* the call whose result riskAssessments holds, 0 if none
    drawerOpen,         \* App.vue: the open prop of the detail drawer
    selectedVehicle,    \* App.vue: vehicleId of the assessment prop of the drawer
    fuelCache,          \* drawer: vehicleId -> FuelRiskResult
    fuelTimestampCache, \* drawer: vehicleId -> timestamp or null
    shownFuelResult,    \* drawer: the fuelResult ref, <<>> is null
    fuelLastTimestamp,  \* drawer: the fuelLastTimestamp ref
    fuelLoading,        \* drawer: the fuelLoading ref
    fuelError,          \* drawer: the fuelError ref
    fuelCalls,          \* the calls of loadFuelData that reached the fetch
    upstream,           \* server: what the sensor API answers to the endpoint
    anomalyResponse     \* server: <<>> before the request is answered, <<response>> after

scoreVars == <<vehicle, ecoEvents, weatherData, weatherEnabled, riskResult>>
serviceVars == <<serviceLog, ticks>>
progressVars == <<kmToService, progressPercent>>
fuelVars == <<snapshots, roundTieUp, fuelResult>>
queueVars == <<assessments, topFive>>
cycleVars == <<weatherRiskEnabled, loading, riskAssessments, cycles, started, publishedBy>>
drawerVars ==
    <<drawerOpen, selectedVehicle, fuelCache, fuelTimestampCache, shownFuelResult,
      fuelLastTimestamp, fuelLoading, fuelError, fuelCalls>>

anomalyVars == <<upstream, anomalyResponse>>

vars ==
    <<now, scoreVars, serviceVars, progressVars, fuelVars, queueVars, cycleVars, drawerVars,
      anomalyVars>>

(***************************************************************************)
(* calculateRisk, riskEngine.ts                                            *)
(***************************************************************************)

\* the speed tiers including their threshold
SpeedRiskInclusive(v) ==
    IF IsNumber(v.Speed) /\ v.Speed >= 130 THEN
        [points |-> 4, reasons |-> <<[type |-> "speedExtreme", value |-> v.Speed]>>]
    ELSE IF IsNumber(v.Speed) /\ v.Speed >= 110 THEN
        [points |-> 3, reasons |-> <<[type |-> "speedHigh", value |-> v.Speed]>>]
    ELSE IF IsNumber(v.Speed) /\ v.Speed >= 95 THEN
        [points |-> 2, reasons |-> <<[type |-> "speedAboveLimit", value |-> v.Speed]>>]
    ELSE IF IsNumber(v.Speed) /\ v.Speed >= 85 THEN
        [points |-> 1, reasons |-> <<[type |-> "speedSlightlyElevated", value |-> v.Speed]>>]
    ELSE
        [points |-> 0, reasons |-> <<>>]

\* SPEED RISK, lines 25-49
SpeedRisk(v) ==
    IF Gt(v.Speed, 130) THEN
        [points |-> 4, reasons |-> <<[type |-> "speedExtreme", value |-> v.Speed]>>]
    ELSE IF Gt(v.Speed, 110) THEN
        [points |-> 3, reasons |-> <<[type |-> "speedHigh", value |-> v.Speed]>>]
    ELSE IF Gt(v.Speed, 95) THEN
        [points |-> 2, reasons |-> <<[type |-> "speedAboveLimit", value |-> v.Speed]>>]
    ELSE IF Gt(v.Speed, 85) THEN
        [points |-> 1, reasons |-> <<[type |-> "speedSlightlyElevated", value |-> v.Speed]>>]
    ELSE
        [points |-> 0, reasons |-> <<>>]

\* the tier above 360 minutes worth 5 points
UpdateDelayRiskFivePoints(v, nowMs) ==
    LET lastUpdateTime == DateGetTime(v.LastPositionTimestamp)
        elapsed == ElapsedMs(lastUpdateTime, nowMs)
        minutes == FloorMinutes(elapsed)
    IN  IF MinutesSinceUpdateGt(elapsed, 360) THEN
            [points |-> 5, reasons |-> <<[type |-> "noUpdateCritical", value |-> minutes]>>]
        ELSE IF MinutesSinceUpdateGt(elapsed, 180) THEN
            [points |-> 4, reasons |-> <<[type |-> "noUpdate", value |-> minutes]>>]
        ELSE IF MinutesSinceUpdateGt(elapsed, 60) THEN
            [points |-> 2, reasons |-> <<[type |-> "noUpdate", value |-> minutes]>>]
        ELSE IF MinutesSinceUpdateGt(elapsed, 15) THEN
            [points |-> 1, reasons |-> <<[type |-> "noUpdate", value |-> minutes]>>]
        ELSE
            [points |-> 0, reasons |-> <<>>]

\* UPDATE DELAY RISK, lines 55-89: the tiers compare the unfloored
\* minutesSinceUpdate, the reason carries the floored minutes
UpdateDelayRisk(v, nowMs) ==
    LET lastUpdateTime == DateGetTime(v.LastPositionTimestamp)
        elapsed == ElapsedMs(lastUpdateTime, nowMs)
        minutes == FloorMinutes(elapsed)
    IN  IF MinutesSinceUpdateGt(elapsed, 360) THEN
            [points |-> 6, reasons |-> <<[type |-> "noUpdateCritical", value |-> minutes]>>]
        ELSE IF MinutesSinceUpdateGt(elapsed, 180) THEN
            [points |-> 4, reasons |-> <<[type |-> "noUpdate", value |-> minutes]>>]
        ELSE IF MinutesSinceUpdateGt(elapsed, 60) THEN
            [points |-> 2, reasons |-> <<[type |-> "noUpdate", value |-> minutes]>>]
        ELSE IF MinutesSinceUpdateGt(elapsed, 15) THEN
            [points |-> 1, reasons |-> <<[type |-> "noUpdate", value |-> minutes]>>]
        ELSE
            [points |-> 0, reasons |-> <<>>]

\* ecoEvents.reduce((sum, event) => sum + event.EventSeverity, 0)
RECURSIVE TotalSeverity(_)
TotalSeverity(events) ==
    IF events = <<>> THEN 0
    ELSE TotalSeverity(SubSeq(events, 1, Len(events) - 1))
            + events[Len(events)].EventSeverity

\* one reason per event instead of the aggregated one
EcoEventRiskPerEvent(events) ==
    [points  |-> TotalSeverity(events),
     reasons |-> [i \in 1..Len(events) |->
                    [type  |-> "ecoEvent",
                     value |-> events[i].EventSeverity,
                     count |-> 1]]]

\* ECO EVENT RISK, lines 95-108: one aggregated reason for a non-empty list
EcoEventRisk(events) ==
    IF Len(events) > 0 THEN
        [points  |-> TotalSeverity(events),
         reasons |-> <<[type  |-> "ecoEvent",
                        value |-> TotalSeverity(events),
                        count |-> Len(events)]>>]
    ELSE
        [points |-> 0, reasons |-> <<>>]

\* event.EventSeverity of a null element of the list raises a TypeError
EcoEventsThrow(events) == \E i \in 1..Len(events) : events[i].isNull

\* calculateWeatherRisk(weatherData) of weatherRiskEngine.ts: the outcome of
\* the computation for this observation
calculateWeatherRisk(w) == [outcome |-> w.outcome, weatherRiskBump |-> w.bump]

WeatherThrows(w) == w.present /\ calculateWeatherRisk(w).outcome = "throws"

\* the weather points added whatever the flag
WeatherRiskAlwaysAdded(w, enabled) ==
    LET r == calculateWeatherRisk(w)
        weatherPoints ==
            IF w.present /\ r.outcome = "number" THEN r.weatherRiskBump ELSE 0
    IN  [points  |-> weatherPoints,
         reasons |-> IF weatherPoints > 0
                     THEN <<[type |-> "weather", value |-> weatherPoints]>>
                     ELSE <<>>]

\* WEATHER RISK, lines 114-126: weatherPoints is computed whenever data
\* exists, the reason is pushed when it is positive, the score gets it only
\* when weatherEnabled
WeatherRisk(w, enabled) ==
    LET r == calculateWeatherRisk(w)
        weatherPoints ==
            IF w.present /\ r.outcome = "number" THEN r.weatherRiskBump ELSE 0
    IN  [points  |-> IF enabled THEN weatherPoints ELSE 0,
         reasons |-> IF weatherPoints > 0
                     THEN <<[type |-> "weather", value |-> weatherPoints]>>
                     ELSE <<>>]

\* the level thresholds excluding their bound
RiskLevelOfStrict(riskScore) ==
    IF riskScore > 6 THEN "critical"
    ELSE IF riskScore > 3 THEN "warning"
    ELSE "ok"

\* FINAL RISK LEVEL, lines 132-140
RiskLevelOf(riskScore) ==
    IF riskScore >= 6 THEN "critical"
    ELSE IF riskScore >= 3 THEN "warning"
    ELSE "ok"

\* a catch block that keeps what was scored before the fault
FallbackAssessmentPartial(v, nowMs) ==
    [vehicleId    |-> v.Code,
     speed        |-> IF v.Speed = Undefined THEN 0 ELSE v.Speed,
     riskScore    |-> SpeedRisk(v).points,
     riskLevel    |-> "ok",
     reasons      |-> SpeedRisk(v).reasons,
     calculatedAt |-> nowMs]

\* the catch block, lines 156-172
FallbackAssessment(v, nowMs) ==
    [vehicleId    |-> v.Code,
     speed        |-> IF v.Speed = Undefined THEN 0 ELSE v.Speed,
     riskScore    |-> 0,
     riskLevel    |-> "ok",
     reasons      |-> <<>>,
     calculatedAt |-> nowMs]

\* the eco-event reason pushed before the speed and staleness reasons
calculateRiskReordered(v, events, w, enabled, nowMs) ==
    IF EcoEventsThrow(events) \/ WeatherThrows(w) THEN
        FallbackAssessment(v, nowMs)
    ELSE
        LET s  == SpeedRisk(v)
            u  == UpdateDelayRisk(v, nowMs)
            e  == EcoEventRisk(events)
            wr == WeatherRisk(w, enabled)
            riskScore == s.points + u.points + e.points + wr.points
        IN  [vehicleId    |-> v.Code,
             speed        |-> v.Speed,
             riskScore    |-> riskScore,
             riskLevel    |-> RiskLevelOf(riskScore),
             reasons      |-> e.reasons \o s.reasons \o u.reasons \o wr.reasons,
             calculatedAt |-> nowMs]

calculateRisk(v, events, w, enabled, nowMs) ==
    IF EcoEventsThrow(events) \/ WeatherThrows(w) THEN
        FallbackAssessment(v, nowMs)
    ELSE
        LET s  == SpeedRisk(v)
            u  == UpdateDelayRisk(v, nowMs)
            e  == EcoEventRisk(events)
            wr == WeatherRisk(w, enabled)
            riskScore == s.points + u.points + e.points + wr.points
        IN  [vehicleId    |-> v.Code,
             speed        |-> v.Speed,
             riskScore    |-> riskScore,
             riskLevel    |-> RiskLevelOf(riskScore),
             reasons      |-> s.reasons \o u.reasons \o e.reasons \o wr.reasons,
             calculatedAt |-> nowMs]


(***************************************************************************)
(* getServiceInfo, maintenanceService.ts                                   *)
(***************************************************************************)
SERVICE_INTERVAL_KM == 10000
ODOMETER_MIN_KM == 10000
ODOMETER_RANGE_KM == 170000

MinInt32 == (-2147483647) - 1

\* (Math.imul(31, h) + c) | 0 for a signed 32-bit h: the product and the sum
\* wrapped to the signed 32-bit range, computed on 16-bit halves
Imul31Add(h, c) ==
    LET lo   == h % 65536
        hi   == h \div 65536
        x    == 31 * lo + c
        lo2  == x % 65536
        t    == 31 * hi + (x \div 65536)
        hi16 == t % 65536
        hi2  == IF hi16 >= 32768 THEN hi16 - 65536 ELSE hi16
    IN  hi2 * 65536 + lo2

\* the loop of hashVehicleId over the characters of the id (char codes)
\* HashLoop(id, n) is h after the first n characters
RECURSIVE HashLoop(_, _)
HashLoop(id, n) ==
    IF n = 0 THEN 0
    ELSE Imul31Add(HashLoop(id, n - 1), id[n])

\* the absolute value taken in 32-bit integer arithmetic, where the minimum
\* integer has no positive counterpart and stays as it is
MathAbsInt32(h) ==
    IF h = MinInt32 THEN [q |-> -134217728, r |-> 0]
    ELSE LET a == IF h < 0 THEN -h ELSE h
         IN  [q |-> a \div 16, r |-> a % 16]

\* Math.abs(h), a number in 0..2^31.  2^31 itself (the absolute
\* value of the minimum 32-bit integer) is kept exact as the pair
\* [q, r] with value 16 * q + r
MathAbs(h) ==
    IF h = MinInt32 THEN [q |-> 134217728, r |-> 0]
    ELSE LET a == IF h < 0 THEN -h ELSE h
         IN  [q |-> a \div 16, r |-> a % 16]

\* a hash seeded with the clock
hashVehicleIdSeeded(id) == MathAbs(Imul31Add(HashLoop(id, Len(id)), 48 + ticks))

hashVehicleId(id) == MathAbs(HashLoop(id, Len(id)))

\* h % m for the pair
HashMod(h, m) == ((h.q % m) * 16 + h.r) % m

\* h >>> 4: the value is below 2^32, so the unsigned shift is the quotient
HashShr4(h) == h.q

\* the thresholds excluding their bound
ServiceStatusOfStrict(remainingKm) ==
    IF remainingKm < 500 THEN "critical"
    ELSE IF remainingKm < 2000 THEN "warning"
    ELSE "ok"

\* lines 56-59
ServiceStatusOf(remainingKm) ==
    IF remainingKm <= 500 THEN "critical"
    ELSE IF remainingKm <= 2000 THEN "warning"
    ELSE "ok"

getServiceInfo(vehicleId) ==
    LET h == hashVehicleId(vehicleId)
        odometer == ODOMETER_MIN_KM + HashMod(h, ODOMETER_RANGE_KM + 1)
        remainingKm == HashShr4(h) % SERVICE_INTERVAL_KM
        nextServiceAt == odometer + remainingKm
        serviceStatus == ServiceStatusOf(remainingKm)
    IN  [odometer |-> odometer, nextServiceAt |-> nextServiceAt,
         remainingKm |-> remainingKm, serviceStatus |-> serviceStatus]

(***************************************************************************)
(* Inputs.                                                                 *)
(***************************************************************************)
BaseTime == 60 * MsPerMinute

SpeedSamples == {60, 85, 86, 95, 96, 110, 111, 130, 131, 140}

StaleThresholds == {15, 60, 180, 360}

\* elapsed times since the last position: on each threshold, 1 ms over it,
\* one minute over it, a recent fix, a long silence, a timestamp in the future
ElapsedSamples ==
    {m * MsPerMinute : m \in {t \in StaleThresholds \cup {10, MaxElapsedMin}
                                  : t <= MaxElapsedMin}}
    \cup {t * MsPerMinute + 1 : t \in {t \in StaleThresholds : t < MaxElapsedMin}}
    \cup {(t + 1) * MsPerMinute : t \in {t \in StaleThresholds : t < MaxElapsedMin}}
    \cup {-MsPerMinute}

Vehicles ==
    {[Code |-> "V1", Speed |-> s, LastPositionTimestamp |-> BaseTime]
        : s \in SpeedSamples}
    \cup {[Code |-> "V1", Speed |-> Undefined, LastPositionTimestamp |-> Undefined]}

Event(sev) == [isNull |-> FALSE, EventSeverity |-> sev]
NullEvent == [isNull |-> TRUE, EventSeverity |-> 0]

WellFormedEvents == {Event(s) : s \in 0..MaxSeverity}

EventLists ==
    UNION {[1..n -> WellFormedEvents] : n \in 0..MaxEvents}
    \cup {<<NullEvent>>}
    \cup {<<e, NullEvent>> : e \in WellFormedEvents}

NoWeather == [present |-> FALSE, outcome |-> "none", bump |-> 0]

WeatherInputs ==
    {NoWeather}
    \cup {[present |-> TRUE, outcome |-> "number", bump |-> b] : b \in 0..MaxWeatherBump}
    \cup {[present |-> TRUE, outcome |-> "notNumber", bump |-> 0],
          [present |-> TRUE, outcome |-> "throws", bump |-> 0]}

\* Math.round(num / den) for den > 0: the nearest integer, a tie going up
MathRound(num, den) == (2 * num + den) \div (2 * den)

\* Math.min and Math.max of two numbers
MathMin(a, b) == IF a < b THEN a ELSE b
MathMax(a, b) == IF a > b THEN a ELSE b

\* The whole-km values of consumed, within -300..10100, for which the double
\* (consumed / SERVICE_INTERVAL_KM) * 100 of line 88 falls just below the exact
\* k + 0.5 (1450 / 10000 * 100 is 14.499999999999998, 2850 gives
\* 28.499999999999996, 5650 gives 56.49999999999999, 5750 gives
\* 57.49999999999999, 10050 gives 100.49999999999999).  For every other whole
\* consumed in that range the double rounds as the exact quotient does.
ProductBelowTie == {1450, 2850, 5650, 5750, 10050}

\* Math.round((consumed / SERVICE_INTERVAL_KM) * 100), line 88
RoundedConsumedPercent(consumed) ==
    IF consumed \in ProductBelowTie
    THEN MathRound(consumed * 100, SERVICE_INTERVAL_KM) - 1
    ELSE MathRound(consumed * 100, SERVICE_INTERVAL_KM)

\* lines 86-89, for a whole number of km
serviceProgressPercent(remainingKm) ==
    LET consumed == SERVICE_INTERVAL_KM - remainingKm
    IN  MathMin(100, MathMax(0, RoundedConsumedPercent(consumed)))

(***************************************************************************)
(* evaluateFuelRisk, src/unnamed/part_004                                  *)
(*                                                                         *)
(* Fuel readings are whole centilitres (a reading of 49.95 L is 4995), so   *)
(* a threshold of T litres is 100 * T; speeds are whole km/h.  A field a    *)
(* snapshot does not carry is Undefined.  dropAmount and the rate of the    *)
(* description are in tenths, as round1 leaves them.                        *)
(***************************************************************************)
DROP_THRESHOLD_L == 5
STATIONARY_SPEED_KMH == 3
ABNORMAL_RATE_LPH == 10
LOW_SPEED_THRESHOLD_KMH == 10

\* round1(n) = Math.round(n * 10) / 10 for n = num / den tenths (den > 0).
\* Math.round takes an exact half up, but n is a double: when the decimal
\* value of n * 10 is an exact half the double lies just above or just below
\* it (55 - 49.95 gives 5.049999999999997 and rounds to 5.0; 45.2 - 39.15
\* gives 6.050000000000004 and rounds to 6.1), which tieUp decides.
round1(num, den, tieUp) ==
    IF 2 * (num % den) = den
    THEN (IF tieUp THEN (num \div den) + 1 ELSE num \div den)
    ELSE MathRound(num, den)

NoDescription == [rule |-> "none", amount |-> Undefined]

\* lines 61-68: the test applied to one consecutive pair, the threshold
\* included
IsSuddenDropInclusive(prev, curr) ==
    /\ prev.fuelVolume # Undefined
    /\ curr.fuelVolume # Undefined
    /\ curr.speed # Undefined
    /\ prev.fuelVolume - curr.fuelVolume >= 100 * DROP_THRESHOLD_L
    /\ curr.speed <= STATIONARY_SPEED_KMH

\* lines 61-68: the test applied to one consecutive pair
IsSuddenDrop(prev, curr) ==
    /\ prev.fuelVolume # Undefined
    /\ curr.fuelVolume # Undefined
    /\ curr.speed # Undefined
    /\ prev.fuelVolume - curr.fuelVolume > 100 * DROP_THRESHOLD_L
    /\ curr.speed <= STATIONARY_SPEED_KMH

\* lines 56-80: the loop from 1-based position i on; <<>> is null
RECURSIVE detectSuddenDropFrom(_, _, _)
detectSuddenDropFrom(s, i, tieUp) ==
    IF i > Len(s) THEN <<>>
    ELSE IF IsSuddenDrop(s[i - 1], s[i])
         THEN LET amount == round1(s[i - 1].fuelVolume - s[i].fuelVolume, 10, tieUp)
              IN  <<[suspiciousDrop |-> TRUE,
                     dropAmount     |-> amount,
                     description    |-> [rule |-> "drop", amount |-> amount],
                     severity       |-> "high"]>>
         ELSE detectSuddenDropFrom(s, i + 1, tieUp)

detectSuddenDrop(s, tieUp) == detectSuddenDropFrom(s, 2, tieUp)

\* lines 87-109; <<>> is null.  The rate totalConsumed / (length / 60) in
\* L/h is 60 * total / (100 * length) for a total in centilitres
detectAbnormalConsumption(s, tieUp) ==
    LET first == s[1]
        last  == s[Len(s)]
    IN  IF /\ first.fuelConsumedTotal # Undefined
           /\ last.fuelConsumedTotal # Undefined
           /\ last.speed # Undefined
        THEN LET totalConsumed == last.fuelConsumedTotal - first.fuelConsumedTotal
                 rateNum == IF Len(s) > 0 THEN 60 * totalConsumed ELSE 0
                 rateDen == IF Len(s) > 0 THEN 100 * Len(s) ELSE 1
             IN  IF /\ rateNum > ABNORMAL_RATE_LPH * rateDen
                    /\ last.speed < LOW_SPEED_THRESHOLD_KMH
                 THEN <<[suspiciousDrop |-> FALSE,
                         dropAmount     |-> Undefined,
                         description    |-> [rule   |-> "consumption",
                                             amount |-> round1(10 * rateNum, rateDen, tieUp)],
                         severity       |-> "medium"]>>
                 ELSE <<>>
        ELSE <<>>

\* a ?? b
Coalesce(a, b) == IF a # <<>> THEN a ELSE b

NoFuelRisk ==
    [suspiciousDrop |-> FALSE, dropAmount |-> Undefined,
     description |-> NoDescription, severity |-> "none"]

\* without the length guard of lines 120-122: the detectors run on every
\* series, and reading the first snapshot of an empty one raises a TypeError
evaluateFuelRiskUnguarded(s, tieUp) ==
    IF Len(s) = 0
    THEN [suspiciousDrop |-> FALSE, dropAmount |-> Undefined,
          description |-> NoDescription, severity |-> "TypeError"]
    ELSE Coalesce(detectSuddenDrop(s, tieUp),
                  Coalesce(detectAbnormalConsumption(s, tieUp), <<NoFuelRisk>>))[1]

\* the two rules in the other order
evaluateFuelRiskConsumptionFirst(s, tieUp) ==
    IF Len(s) < 2 THEN NoFuelRisk
    ELSE Coalesce(detectAbnormalConsumption(s, tieUp),
                  Coalesce(detectSuddenDrop(s, tieUp), <<NoFuelRisk>>))[1]

\* lines 119-129
evaluateFuelRisk(s, tieUp) ==
    IF Len(s) < 2 THEN NoFuelRisk
    ELSE Coalesce(detectSuddenDrop(s, tieUp),
                  Coalesce(detectAbnormalConsumption(s, tieUp), <<NoFuelRisk>>))[1]

(***************************************************************************)
(* The fuel panel of the vehicle detail drawer,                            *)
(* VehicleDetailDrawer.vue:219-307, opened by App.vue:33-39 and 697-701.    *)
(***************************************************************************)
\* props.assessment is null: no vehicleId
NoSelection == "null"

\* a timestamp that is null (s.timestamp ?? null); timestamps are minutes
NoTimestamp == Undefined

DrawerVehicleIds == {"A", "B"}

\* one FuelSnapshot of fuelService.ts
Snap(vol, total, sp, ts) ==
    [timestamp |-> ts, fuelVolume |-> vol, fuelConsumedTotal |-> total, speed |-> sp]

\* What the sensor endpoint may answer for a vehicle, as fetchFuelSnapshots
\* returns it: for A a drop of 5.1 L at standstill, or one of 15.12 L followed
\* by a snapshot without fuel readings; for B nothing at all, or 1.01 L
\* consumed over two snapshots at 4 km/h.
FuelSeriesOf(id) ==
    IF id = "A"
    THEN {<<Snap(6000, 0, 60, 1), Snap(5490, 50, 3, 2)>>,
          <<Snap(6000, 0, 60, 1), Snap(4488, 101, 0, 2), Snap(Undefined, Undefined, 0, 3)>>}
    ELSE {<<>>,
          <<Snap(6000, 0, 4, 1), Snap(6000, 101, 4, 2)>>}

\* lines 239-247, from 1-based position i down
RECURSIVE extractLastTimestampFrom(_, _)
extractLastTimestampFrom(s, i) ==
    IF i = 0
    THEN (IF Len(s) = 0 THEN NoTimestamp ELSE s[Len(s)].timestamp)
    ELSE IF s[i].fuelVolume # Undefined \/ s[i].fuelConsumedTotal # Undefined
         THEN s[i].timestamp
         ELSE extractLastTimestampFrom(s, i - 1)

extractLastTimestamp(s) == extractLastTimestampFrom(s, Len(s))

\* a Map keyed by vehicleId is a function on the ids whose value is <<>>
\* for a key the map does not hold
EmptyCache == [id \in DrawerVehicleIds |-> <<>>]

CacheHas(cache, id) == cache[id] # <<>>

\* an entry once written is never replaced
CacheSetIfAbsent(cache, id, value) ==
    IF CacheHas(cache, id) THEN cache ELSE [cache EXCEPT ![id] = <<value>>]

\* Map.prototype.set
CacheSet(cache, id, value) == [cache EXCEPT ![id] = <<value>>]

\* ids as sequences of char codes: all short ids over "1", "z", and
\* ids whose remainingKm falls on 500, 501, 2000, 2001 ("IJCB", "IJCR",
\* "DWRA", "DWRO"), and one whose hash wraps to the minimum 32-bit integer
\* ("0UBSNAI")
IdChars == {49, 122}

ProbeIds ==
    {<<73, 74, 67, 66>>, <<73, 74, 67, 82>>, <<68, 87, 82, 65>>, <<68, 87, 82, 79>>,
     <<48, 85, 66, 83, 78, 65, 73>>}

VehicleIds == UNION {[1..n -> IdChars] : n \in 0..MaxIdLen} \cup ProbeIds

(***************************************************************************)
(* Each specification below drives one part of the program; the state of   *)
(* the parts it does not drive stays as these predicates fix it.           *)
(***************************************************************************)
ScoreIdle ==
    /\ vehicle = [Code |-> "V1", Speed |-> 60, LastPositionTimestamp |-> BaseTime]
    /\ ecoEvents = <<>>
    /\ weatherData = NoWeather
    /\ weatherEnabled = FALSE
    /\ riskResult = <<>>

ServiceIdle == serviceLog = <<>> /\ ticks = 0

ProgressIdle == kmToService = 0 /\ progressPercent = <<>>

FuelIdle == snapshots = <<>> /\ roundTieUp = FALSE /\ fuelResult = <<>>

QueueIdle == assessments = <<>> /\ topFive = <<>>

CycleIdle ==
    /\ weatherRiskEnabled = FALSE
    /\ loading = TRUE
    /\ riskAssessments = <<>>
    /\ cycles = <<>>
    /\ started = 0
    /\ publishedBy = 0

\* a drawer that was never opened: App.vue:33-34 and the refs of
\* VehicleDetailDrawer.vue:227-233
DrawerIdle ==
    /\ drawerOpen = FALSE
    /\ selectedVehicle = NoSelection
    /\ fuelCache = EmptyCache
    /\ fuelTimestampCache = EmptyCache
    /\ shownFuelResult = <<>>
    /\ fuelLastTimestamp = NoTimestamp
    /\ fuelLoading = FALSE
    /\ fuelError = FALSE
    /\ fuelCalls = <<>>

\* no request to the fuelAnomaly endpoint
AnomalyIdle ==
    /\ upstream = [kind |-> "rejected", status |-> 0, fuel |-> <<>>, speed |-> <<>>]
    /\ anomalyResponse = <<>>

(***************************************************************************)
(* Scoring one vehicle: Init draws the inputs, CalculateRisk applies the   *)
(* function at the instant now.                                            *)
(***************************************************************************)
Init ==
    /\ vehicle \in Vehicles
    /\ now \in {BaseTime + e : e \in ElapsedSamples}
    /\ ecoEvents \in EventLists
    /\ weatherData \in WeatherInputs
    /\ weatherEnabled \in BOOLEAN
    /\ riskResult = <<>>
    /\ ServiceIdle /\ ProgressIdle /\ FuelIdle /\ QueueIdle /\ CycleIdle
    /\ DrawerIdle /\ AnomalyIdle

CalculateRisk ==
    /\ riskResult = <<>>
    /\ riskResult' = <<calculateRisk(vehicle, ecoEvents, weatherData,
                                     weatherEnabled, now)>>
    /\ UNCHANGED <<now, vehicle, ecoEvents, weatherData, weatherEnabled>>
    /\ UNCHANGED <<serviceVars, progressVars, fuelVars, queueVars, cycleVars,
                   drawerVars, anomalyVars>>

Next == CalculateRisk

Spec == Init /\ [][Next]_vars

(***************************************************************************)
(* Service status: calls of getServiceInfo for arbitrary ids, interleaved  *)
(* with the clock advancing.                                               *)
(***************************************************************************)
InitService ==
    /\ now = BaseTime
    /\ serviceLog = <<>>
    /\ ticks = 0
    /\ ScoreIdle /\ ProgressIdle /\ FuelIdle /\ QueueIdle /\ CycleIdle
    /\ DrawerIdle /\ AnomalyIdle

GetServiceInfo(id) ==
    /\ Len(serviceLog) < MaxCalls
    /\ serviceLog' = Append(serviceLog,
                             [vehicleId |-> id, at |-> now, info |-> getServiceInfo(id)])
    /\ UNCHANGED <<now, ticks>>
    /\ UNCHANGED <<scoreVars, progressVars, fuelVars, queueVars, cycleVars,
                   drawerVars, anomalyVars>>

Tick ==
    /\ ticks < MaxTicks
    /\ ticks' = ticks + 1
    /\ now' = now + MsPerMinute
    /\ UNCHANGED serviceLog
    /\ UNCHANGED <<scoreVars, progressVars, fuelVars, queueVars, cycleVars,
                   drawerVars, anomalyVars>>

NextService ==
    \/ \E id \in VehicleIds : GetServiceInfo(id)
    \/ Tick

SpecService == InitService /\ [][NextService]_vars

(***************************************************************************)
(* The progress bar: one call of serviceProgressPercent for a remainingKm   *)
(* inside the service interval or up to MaxOvershootKm outside it.         *)
(***************************************************************************)
RemainingKmInputs == (0 - MaxOvershootKm)..(SERVICE_INTERVAL_KM + MaxOvershootKm)

InitProgress ==
    /\ now = BaseTime
    /\ kmToService \in RemainingKmInputs
    /\ progressPercent = <<>>
    /\ ScoreIdle /\ ServiceIdle /\ FuelIdle /\ QueueIdle /\ CycleIdle
    /\ DrawerIdle /\ AnomalyIdle

ServiceProgressPercent ==
    /\ progressPercent = <<>>
    /\ progressPercent' = <<serviceProgressPercent(kmToService)>>
    /\ UNCHANGED <<now, kmToService>>
    /\ UNCHANGED <<scoreVars, serviceVars, fuelVars, queueVars, cycleVars,
                   drawerVars, anomalyVars>>

NextProgress == ServiceProgressPercent

SpecProgress == InitProgress /\ [][NextProgress]_vars

(***************************************************************************)
(* Fuel anomalies: one call of evaluateFuelRisk on a series of up to        *)
(* MaxSnapshots snapshots.  The readings put drops of exactly 5.00 L, of    *)
(* 5.05 L and 10.05 L (decimal ties of round1), of 5.07 L and of more on    *)
(* consecutive pairs, and totals of 0.50 L, 0.51 L and 1.01 L on the        *)
(* cumulative consumption; the speeds lie on both sides of 3 and of 10.     *)
(***************************************************************************)
FuelReadings ==
    {<<6000, 0>>, <<5500, 50>>, <<4995, 101>>, <<4488, 101>>,
     <<Undefined, 0>>, <<Undefined, Undefined>>}

SpeedReadings == {Undefined, 3, 4, 10}

SnapshotSamples ==
    {[fuelVolume |-> r[1], fuelConsumedTotal |-> r[2], speed |-> sp] :
        r \in FuelReadings, sp \in SpeedReadings}

InitFuel ==
    /\ now = BaseTime
    /\ \E n \in 0..MaxSnapshots : snapshots \in [1..n -> SnapshotSamples]
    /\ roundTieUp \in BOOLEAN
    /\ fuelResult = <<>>
    /\ ScoreIdle /\ ServiceIdle /\ ProgressIdle /\ QueueIdle /\ CycleIdle
    /\ DrawerIdle /\ AnomalyIdle

EvaluateFuelRisk ==
    /\ fuelResult = <<>>
    /\ fuelResult' = <<evaluateFuelRisk(snapshots, roundTieUp)>>
    /\ UNCHANGED <<now, snapshots, roundTieUp>>
    /\ UNCHANGED <<scoreVars, serviceVars, progressVars, queueVars, cycleVars,
                   drawerVars, anomalyVars>>

NextFuel == EvaluateFuelRisk

SpecFuel == InitFuel /\ [][NextFuel]_vars

(***************************************************************************)
(* loadData, App.vue:50-132: the aggregation cycle.                        *)
(*                                                                         *)
(* A call of loadData runs up to its first await and then continues each    *)
(* time a promise it awaits settles; calls started while an earlier one is  *)
(* still waiting overlap with it.  cycles[c] is the c-th call: where it     *)
(* waits (pc), how it ended (outcome), the roster it fetched, one task per  *)
(* roster entry, and the collection it published (result).                  *)
(***************************************************************************)
\* a coordinate that is null or undefined (also: no LastPosition at all)
NoCoordinate == "null"

\* strings that String(x).trim() turns into ""
BlankCoordinates == {"", " "}

VehicleA ==
    [isNull |-> FALSE, Code |-> "A", Speed |-> 140, LastPositionTimestamp |-> BaseTime,
     Latitude |-> "50.08", Longitude |-> "14.43", Odometer |-> 123456]

VehicleB ==
    [isNull |-> FALSE, Code |-> "B", Speed |-> 60,
     LastPositionTimestamp |-> BaseTime - 30 * MsPerMinute,
     Latitude |-> "50.08", Longitude |-> NoCoordinate, Odometer |-> Undefined]

VehicleC ==
    [isNull |-> FALSE, Code |-> "C", Speed |-> 100, LastPositionTimestamp |-> BaseTime,
     Latitude |-> " ", Longitude |-> "14.43", Odometer |-> 9600]

\* a null entry of the roster array
NullVehicle ==
    [isNull |-> TRUE, Code |-> "", Speed |-> Undefined, LastPositionTimestamp |-> Undefined,
     Latitude |-> NoCoordinate, Longitude |-> NoCoordinate, Odometer |-> Undefined]

\* what fetchVehiclesByGroup may resolve to
Rosters ==
    {<<>>, <<VehicleA, VehicleB>>, <<VehicleB>>, <<VehicleC>>, <<VehicleA, NullVehicle>>}

\* how the fetch of fetchEcoEvents may end: an OK response with an array, a
\* non-OK response (its body is not read), an OK response whose JSON is not
\* an array, a rejected fetch or JSON parse
EcoOutcomes ==
    {[kind |-> "ok", data |-> <<Event(3)>>],
     [kind |-> "nonOk", data |-> <<Event(3)>>],
     [kind |-> "notArray", data |-> <<>>],
     [kind |-> "rejected", data |-> <<>>]}

\* the same with the response taken as it comes
fetchEcoEventsUnchecked(outcome) == outcome.data

\* part_006:8-30
fetchEcoEvents(outcome) ==
    IF outcome.kind = "ok" THEN outcome.data ELSE <<>>

SomeWeather == [present |-> TRUE, outcome |-> "number", bump |-> 1]

\* how the fetch of /api/weather may end: an OK response, a non-OK response,
\* a rejected fetch or JSON parse
WeatherOutcomes ==
    {[kind |-> "ok", data |-> SomeWeather],
     [kind |-> "nonOk", data |-> SomeWeather],
     [kind |-> "rejected", data |-> NoWeather]}

\* App.vue:76-85: vehicleWeatherData after the fetch
vehicleWeatherData(outcome) ==
    IF outcome.kind = "ok" THEN outcome.data ELSE NoWeather

\* App.vue:69-75
ShouldFetchWeather(v, enabled) ==
    /\ enabled
    /\ v.Latitude # NoCoordinate
    /\ v.Longitude # NoCoordinate
    /\ v.Latitude \notin BlankCoordinates
    /\ v.Longitude \notin BlankCoordinates

\* calculateServiceStatus of services/serviceEngine (not among the sources),
\* which computes the rest of ServiceInfo from the odometer; taken after the
\* description of ServiceInfo: the distance to the next multiple of the
\* service interval, with the status thresholds of ServiceInfo
calculateServiceStatus(odometer) ==
    LET remainingKm == SERVICE_INTERVAL_KM - (odometer % SERVICE_INTERVAL_KM)
    IN  [nextServiceAt |-> odometer + remainingKm,
         remainingKm   |-> remainingKm,
         serviceStatus |-> ServiceStatusOf(remainingKm)]

\* App.vue:109-118: one element of the published collection
AssessmentWithService(a, v) ==
    LET odometer == IF v.Odometer = Undefined THEN 0 ELSE v.Odometer
        st       == calculateServiceStatus(odometer)
    IN  [vehicleId    |-> a.vehicleId,
         speed        |-> a.speed,
         riskScore    |-> a.riskScore,
         riskLevel    |-> a.riskLevel,
         reasons      |-> a.reasons,
         calculatedAt |-> a.calculatedAt,
         serviceInfo  |-> [odometer      |-> odometer,
                           nextServiceAt |-> st.nextServiceAt,
                           remainingKm   |-> st.remainingKm,
                           serviceStatus |-> st.serviceStatus]]

\* the new collection appended to the one already published
PublishedCollectionMerged(previous, produced) == previous \o produced

\* App.vue:120: riskAssessments.value = assessments
PublishedCollection(previous, produced) == produced

\* A task of the Promise.all of lines 60-102.  pc: "eco" while
\* fetchEcoEvents is awaited, "weather" while the weather fetch is awaited,
\* "done" once it has returned its pair, "rejected" if its promise rejected.
\* enabledAtDecision is the flag as line 70 read it, scoredWith the flag as
\* line 93 read it.
PendingTask ==
    [pc |-> "eco", ecoSettled |-> FALSE, ecoFailed |-> FALSE, ecoEvents |-> <<>>,
     weather |-> "notFetched", enabledAtDecision |-> FALSE, weatherData |-> NoWeather,
     scoredWith |-> FALSE, assessment |-> <<>>]

\* lines 61-63 and 97-99 for a null roster entry: vehicle.Code raises in the
\* try block, the catch block reads vehicle.Code again for its log line and
\* raises too, so the promise of the task rejects
RejectedTask == [PendingTask EXCEPT !.pc = "rejected"]

\* lines 88-96: the pair the task returns
ScoredTask(t, v, enabled) ==
    [t EXCEPT !.pc = "done",
              !.scoredWith = enabled,
              !.assessment = <<calculateRisk(v, t.ecoEvents, t.weatherData, enabled, now)>>]

NewCycle ==
    [pc |-> "fetchGroups", outcome |-> "none", roster |-> <<>>, tasks |-> <<>>,
     result |-> <<>>]

\* lines 50-52: a call of loadData up to its first await
LoadData ==
    /\ cycles' = Append(cycles, NewCycle)
    /\ started' = started + 1

\* line 128
OnMounted ==
    /\ started = 0
    /\ LoadData
    /\ UNCHANGED <<now, weatherRiskEnabled, loading, riskAssessments, publishedBy>>
    /\ UNCHANGED <<scoreVars, serviceVars, progressVars, fuelVars, queueVars,
                   drawerVars, anomalyVars>>

\* the user flips the weather toggle; the watcher of lines 130-132 calls
\* loadData
ToggleWeather ==
    /\ started >= 1
    /\ started < MaxCycles
    /\ weatherRiskEnabled' = ~weatherRiskEnabled
    /\ LoadData
    /\ UNCHANGED <<now, loading, riskAssessments, publishedBy>>
    /\ UNCHANGED <<scoreVars, serviceVars, progressVars, fuelVars, queueVars,
                   drawerVars, anomalyVars>>

\* lines 52-53 and 121-125: fetchGroups settles with a non-empty list, with an
\* empty list (return) or by rejecting (catch); finally clears loading
FetchGroupsSettles(c, outcome) ==
    /\ cycles[c].pc = "fetchGroups"
    /\ IF outcome = "groups"
       THEN /\ cycles' = [cycles EXCEPT ![c].pc = "fetchVehicles"]
            /\ UNCHANGED loading
       ELSE /\ cycles' = [cycles EXCEPT ![c].pc = "done",
                                        ![c].outcome =
                                            IF outcome = "noGroups" THEN "noGroups"
                                            ELSE "fetchFailed"]
            /\ loading' = FALSE
    /\ UNCHANGED <<now, weatherRiskEnabled, riskAssessments, started, publishedBy>>
    /\ UNCHANGED <<scoreVars, serviceVars, progressVars, fuelVars, queueVars,
                   drawerVars, anomalyVars>>

\* FetchVehiclesRejects without the finally block of lines 123-125
FetchVehiclesRejectsNoFinally(c) ==
    /\ cycles[c].pc = "fetchVehicles"
    /\ cycles' = [cycles EXCEPT ![c].pc = "done", ![c].outcome = "fetchFailed"]
    /\ UNCHANGED <<now, weatherRiskEnabled, loading, riskAssessments, started, publishedBy>>
    /\ UNCHANGED <<scoreVars, serviceVars, progressVars, fuelVars, queueVars,
                   drawerVars, anomalyVars>>

\* lines 57-58 and 121-125: fetchVehiclesByGroup rejects
FetchVehiclesRejects(c) ==
    /\ cycles[c].pc = "fetchVehicles"
    /\ cycles' = [cycles EXCEPT ![c].pc = "done", ![c].outcome = "fetchFailed"]
    /\ loading' = FALSE
    /\ UNCHANGED <<now, weatherRiskEnabled, riskAssessments, started, publishedBy>>
    /\ UNCHANGED <<scoreVars, serviceVars, progressVars, fuelVars, queueVars,
                   drawerVars, anomalyVars>>

\* lines 104-118: the collection built from the pairs of a call whose tasks
\* have all returned
ProducedBy(cy) ==
    [i \in 1..Len(cy.tasks) |-> AssessmentWithService(cy.tasks[i].assessment[1], cy.roster[i])]

\* lines 60 and 104-125: cy is call c after one of its tasks has moved.
\* Promise.all resolves as soon as every task has returned its pair, and the
\* call goes on in the same turn of the event loop: it attaches the service
\* info, publishes and clears loading.  A call that has already ended in its
\* catch block, or whose tasks have not all returned, only keeps the move.
Publish(c, cy) ==
    IF cy.pc = "tasks" /\ \A i \in 1..Len(cy.tasks) : cy.tasks[i].pc = "done"
    THEN \E produced \in {ProducedBy(cy)} :
            /\ riskAssessments' = PublishedCollection(riskAssessments, produced)
            /\ cycles' = [cycles EXCEPT ![c] = [cy EXCEPT !.pc = "done",
                                                          !.outcome = "published",
                                                          !.result = produced]]
            /\ loading' = FALSE
            /\ publishedBy' = c
    ELSE /\ cycles' = [cycles EXCEPT ![c] = cy]
         /\ UNCHANGED <<loading, riskAssessments, publishedBy>>

\* lines 57-63: fetchVehiclesByGroup resolves and every task runs up to its
\* first await.  A task that rejects makes Promise.all reject: the call goes
\* to the catch of line 121 and the finally of line 123 while the other tasks
\* stay in flight.  With an empty roster Promise.all resolves at once.
FetchVehiclesResolves(c, roster) ==
    /\ cycles[c].pc = "fetchVehicles"
    /\ LET tasks == [i \in 1..Len(roster) |->
                        IF roster[i].isNull THEN RejectedTask ELSE PendingTask]
           rejects == \E i \in 1..Len(roster) : roster[i].isNull
       IN  IF rejects
           THEN /\ cycles' = [cycles EXCEPT ![c].roster = roster,
                                            ![c].tasks = tasks,
                                            ![c].pc = "done",
                                            ![c].outcome = "taskRejected"]
                /\ loading' = FALSE
                /\ UNCHANGED <<riskAssessments, publishedBy>>
           ELSE \E cy \in {[cycles[c] EXCEPT !.roster = roster,
                                               !.tasks = tasks,
                                               !.pc = "tasks"]} : Publish(c, cy)
    /\ UNCHANGED <<now, weatherRiskEnabled, started>>
    /\ UNCHANGED <<scoreVars, serviceVars, progressVars, fuelVars, queueVars,
                   drawerVars, anomalyVars>>

\* lines 63-96: fetchEcoEvents settles for task i; the task reads the toggle
\* and either issues the weather fetch or returns its pair
EcoEventsSettles(c, i, outcome) ==
    /\ cycles[c].tasks[i].pc = "eco"
    /\ LET v == cycles[c].roster[i]
           t == [cycles[c].tasks[i] EXCEPT
                    !.ecoSettled = TRUE,
                    !.ecoFailed = (outcome.kind # "ok"),
                    !.ecoEvents = fetchEcoEvents(outcome),
                    !.enabledAtDecision = weatherRiskEnabled]
       IN  \E cy \in {[cycles[c] EXCEPT !.tasks[i] =
                            IF ShouldFetchWeather(v, weatherRiskEnabled)
                            THEN [t EXCEPT !.pc = "weather", !.weather = "pending"]
                            ELSE ScoredTask(t, v, weatherRiskEnabled)]} : Publish(c, cy)
    /\ UNCHANGED <<now, weatherRiskEnabled, started>>
    /\ UNCHANGED <<scoreVars, serviceVars, progressVars, fuelVars, queueVars,
                   drawerVars, anomalyVars>>

\* lines 76-96: the weather fetch settles for task i and the task returns
\* its pair
WeatherSettles(c, i, outcome) ==
    /\ cycles[c].tasks[i].pc = "weather"
    /\ LET v == cycles[c].roster[i]
           t == [cycles[c].tasks[i] EXCEPT
                    !.weather = IF outcome.kind = "ok" THEN "ok" ELSE "failed",
                    !.weatherData = vehicleWeatherData(outcome)]
       IN  \E cy \in {[cycles[c] EXCEPT !.tasks[i] = ScoredTask(t, v, weatherRiskEnabled)]} :
              Publish(c, cy)
    /\ UNCHANGED <<now, weatherRiskEnabled, started>>
    /\ UNCHANGED <<scoreVars, serviceVars, progressVars, fuelVars, queueVars,
                   drawerVars, anomalyVars>>

InitCycle ==
    /\ now = BaseTime
    /\ CycleIdle
    /\ ScoreIdle /\ ServiceIdle /\ ProgressIdle /\ FuelIdle /\ QueueIdle
    /\ DrawerIdle /\ AnomalyIdle

NextCycle ==
    \/ OnMounted
    \/ ToggleWeather
    \/ \E c \in 1..Len(cycles) :
          \/ \E outcome \in {"groups", "noGroups", "rejected"} : FetchGroupsSettles(c, outcome)
          \/ FetchVehiclesRejects(c)
          \/ \E roster \in Rosters : FetchVehiclesResolves(c, roster)
          \/ \E i \in 1..Len(cycles[c].tasks) :
                \/ \E outcome \in EcoOutcomes : EcoEventsSettles(c, i, outcome)
                \/ \E outcome \in WeatherOutcomes : WeatherSettles(c, i, outcome)

SpecCycle == InitCycle /\ [][NextCycle]_vars


\* The end of a call depends on how its fetches settle, not on what they
\* carry: one roster of each shape (empty, two vehicles, one vehicle and a
\* malformed entry) and, for the two per-vehicle fetches, one answer that is
\* used and one rejection.
LiveRosters == {<<>>, <<VehicleA, VehicleB>>, <<VehicleA, NullVehicle>>}

LiveEcoOutcomes == {o \in EcoOutcomes : o.kind \in {"ok", "rejected"}}

LiveWeatherOutcomes == {o \in WeatherOutcomes : o.kind \in {"ok", "rejected"}}

\* a pending fetch of call c settles
FetchSettles(c) ==
    /\ c <= Len(cycles)
    /\ \/ \E outcome \in {"groups", "noGroups", "rejected"} : FetchGroupsSettles(c, outcome)
       \/ FetchVehiclesRejects(c)
       \/ \E roster \in LiveRosters : FetchVehiclesResolves(c, roster)
       \/ \E i \in 1..Len(cycles[c].tasks) :
             \/ \E outcome \in LiveEcoOutcomes : EcoEventsSettles(c, i, outcome)
             \/ \E outcome \in LiveWeatherOutcomes : WeatherSettles(c, i, outcome)

NextCycleLive ==
    \/ OnMounted
    \/ ToggleWeather
    \/ \E c \in 1..MaxCycles : FetchSettles(c)

\* The fetches that have been issued settle: as long as some fetch is pending,
\* one of the pending fetches settles in the end.  Every call issues finitely
\* many fetches, so each of them settles.
SpecCycleLive ==
    /\ InitCycle
    /\ [][NextCycleLive]_vars
    /\ WF_vars(\E c \in 1..MaxCycles : FetchSettles(c))

(***************************************************************************)
(* The priority queue component, src/unnamed/part_006:32-90.               *)
(*                                                                         *)
(* The composite priority riskScore * 2 + minutes / 60 + (3 or 0) is kept   *)
(* in sixtieths, riskScore * 120 + minutes + (180 or 0), which is a whole   *)
(* number and orders the assessments as the doubles do.                     *)
(***************************************************************************)
\* lines 44-53; Number(r.value) of an absent value is NaN
getMinutesWithoutCommunicationFrom(reasons, n) ==
    LET vals == {reasons[k].value : k \in {j \in 1..n :
                     /\ reasons[j].type \in {"noUpdate", "noUpdateCritical"}
                     /\ IsNumber(reasons[j].value)
                     /\ reasons[j].value > 0}}
    IN  IF vals = {} THEN 0
        ELSE CHOOSE m \in vals : \A x \in vals : x <= m

getMinutesWithoutCommunication(a) ==
    getMinutesWithoutCommunicationFrom(a.reasons, Len(a.reasons))

\* lines 55-60
isPredictedToWorsen(a) ==
    \/ a.riskLevel = "critical"
    \/ \E k \in 1..Len(a.reasons) : a.reasons[k].type = "noUpdateCritical"

\* App.vue:190-195: the filter of priorityVehicles
IsPriorityVehicle(r) ==
    \/ r.riskLevel = "critical"
    \/ \E k \in 1..Len(r.reasons) : r.reasons[k].type = "noUpdateCritical"

\* the minutes added without the division by 60
computePriorityScoreWholeMinutes(a) ==
    a.riskScore * 120 + 60 * getMinutesWithoutCommunication(a)
        + (IF isPredictedToWorsen(a) THEN 180 ELSE 0)

\* without the 3 added for an assessment predicted to worsen
computePriorityScoreNoBonus(a) ==
    a.riskScore * 120 + getMinutesWithoutCommunication(a)

\* lines 62-70, in sixtieths
computePriorityScore(a) ==
    a.riskScore * 120 + getMinutesWithoutCommunication(a)
        + (IF isPredictedToWorsen(a) THEN 180 ELSE 0)

\* lines 81-87
QueueItemOf(a) ==
    [assessment                  |-> a,
     position                    |-> 0,
     priorityScore               |-> computePriorityScore(a),
     minutesWithoutCommunication |-> getMinutesWithoutCommunication(a),
     predictedToWorsen           |-> isPredictedToWorsen(a)]

\* the item put before the items of a lower or equal priority
InsertByPriorityAscending(sorted, x) ==
    LET k == Cardinality({j \in 1..Len(sorted) : sorted[j].priorityScore < x.priorityScore})
    IN  SubSeq(sorted, 1, k) \o <<x>> \o SubSeq(sorted, k + 1, Len(sorted))

\* the item put before the items of an equal priority that precede it
InsertByPriorityBeforeEquals(sorted, x) ==
    LET k == Cardinality({j \in 1..Len(sorted) : sorted[j].priorityScore > x.priorityScore})
    IN  SubSeq(sorted, 1, k) \o <<x>> \o SubSeq(sorted, k + 1, Len(sorted))

\* line 88: Array.prototype.sort is stable, so under the comparator
\* b.priorityScore - a.priorityScore an item ends up after every item of a
\* higher priority and after the items of equal priority that precede it
InsertByPriority(sorted, x) ==
    LET k == Cardinality({j \in 1..Len(sorted) : sorted[j].priorityScore >= x.priorityScore})
    IN  SubSeq(sorted, 1, k) \o <<x>> \o SubSeq(sorted, k + 1, Len(sorted))

\* line 88: the first n items, sorted
RECURSIVE SortByPriority(_, _)
SortByPriority(items, n) ==
    IF n = 0 THEN <<>>
    ELSE InsertByPriority(SortByPriority(items, n - 1), items[n])

\* line 89: slice(0, 5)
QUEUE_SIZE == 5

\* lines 80-90
TopFiveOf(list) ==
    LET items  == [i \in 1..Len(list) |-> QueueItemOf(list[i])]
        sorted == SortByPriority(items, Len(items))
        kept   == SubSeq(sorted, 1, MathMin(QUEUE_SIZE, Len(sorted)))
    IN  [i \in 1..Len(kept) |-> [kept[i] EXCEPT !.position = i]]

\* Assessments handed to the component: what the scorer gives for a quiet
\* vehicle, for a stale one (200 min), for a faster stale one (80 min) of the
\* same composite priority, for a critical one by staleness (400 min) and a
\* critical one by speed and staleness; and a record that is not critical
\* by level but carries several staleness reasons, one of them critical and
\* one without a numeric value.
QueueAssessmentSamples ==
    {[riskScore |-> 0, riskLevel |-> "ok", reasons |-> <<>>],
     [riskScore |-> 4, riskLevel |-> "warning",
      reasons |-> <<[type |-> "noUpdate", value |-> 200]>>],
     [riskScore |-> 5, riskLevel |-> "warning",
      reasons |-> <<[type |-> "speedHigh", value |-> 120],
                    [type |-> "noUpdate", value |-> 80]>>],
     [riskScore |-> 6, riskLevel |-> "critical",
      reasons |-> <<[type |-> "noUpdateCritical", value |-> 400]>>],
     [riskScore |-> 6, riskLevel |-> "critical",
      reasons |-> <<[type |-> "speedExtreme", value |-> 140],
                    [type |-> "noUpdate", value |-> 100]>>],
     [riskScore |-> 2, riskLevel |-> "ok",
      reasons |-> <<[type |-> "noUpdate", value |-> 30],
                    [type |-> "noUpdateCritical", value |-> 400],
                    [type |-> "noUpdate", value |-> NaN]>>]}

\* the i-th assessment of the prop is the one of vehicle i
WithVehicleIds(f) ==
    [i \in 1..Len(f) |-> [vehicleId |-> i,
                          riskScore |-> f[i].riskScore,
                          riskLevel |-> f[i].riskLevel,
                          reasons   |-> f[i].reasons]]

InitQueue ==
    /\ now = BaseTime
    /\ \E n \in 0..MaxAssessments :
          \E f \in [1..n -> QueueAssessmentSamples] :
              assessments = WithVehicleIds(f)
    /\ topFive = <<>>
    /\ ScoreIdle /\ ServiceIdle /\ ProgressIdle /\ FuelIdle /\ CycleIdle
    /\ DrawerIdle /\ AnomalyIdle

\* the computed property is evaluated
ComputeTopFive ==
    /\ topFive = <<>>
    /\ topFive' = <<TopFiveOf(assessments)>>
    /\ UNCHANGED <<now, assessments>>
    /\ UNCHANGED <<scoreVars, serviceVars, progressVars, fuelVars, cycleVars,
                   drawerVars, anomalyVars>>

NextQueue == ComputeTopFive

SpecQueue == InitQueue /\ [][NextQueue]_vars

(***************************************************************************)
(* The priority queue fed by the scorer: two vehicles are scored by         *)
(* calculateRisk at one instant and their assessments handed to the queue.  *)
(* The speeds give 0, 1 and 4 points, the silences 0, 4 and 6 points with    *)
(* 200 to 361 minutes, the events 0, 1 and 2 points.                        *)
(***************************************************************************)
RankNow == BaseTime + 400 * MsPerMinute

RankVehicles ==
    {[Code |-> "V1", Speed |-> s, LastPositionTimestamp |-> RankNow - e * MsPerMinute]
        : s \in {60, 90, 140}, e \in {0, 200, 299, 300, 301, 360, 361}}

RankEventLists == {<<>>, <<Event(1)>>, <<Event(2)>>}

InitRank ==
    /\ now = RankNow
    /\ \E v1 \in RankVehicles, v2 \in RankVehicles :
       \E e1 \in RankEventLists, e2 \in RankEventLists :
           assessments = WithVehicleIds(<<calculateRisk(v1, e1, NoWeather, FALSE, now),
                                          calculateRisk(v2, e2, NoWeather, FALSE, now)>>)
    /\ topFive = <<>>
    /\ ScoreIdle /\ ServiceIdle /\ ProgressIdle /\ FuelIdle /\ CycleIdle
    /\ DrawerIdle /\ AnomalyIdle

SpecRank == InitRank /\ [][NextQueue]_vars

(***************************************************************************)
(* The drawer: the user opens it on a vehicle, switches it to another one   *)
(* or closes it, and the fetches of loadFuelData settle in any order.       *)
(* fuelCalls[i] is the i-th call that reached fetchFuelSnapshots: its       *)
(* vehicleId argument, whether it still waits (pc), how the fetch settled   *)
(* and the snapshots it got.                                               *)
(***************************************************************************)
\* lines 264-272: loadFuelData up to its first await
LoadFuelDataStarts(id) ==
    IF CacheHas(fuelCache, id)
    THEN /\ shownFuelResult' = fuelCache[id]
         /\ fuelLastTimestamp' = (IF CacheHas(fuelTimestampCache, id)
                                  THEN fuelTimestampCache[id][1]
                                  ELSE NoTimestamp)
         /\ UNCHANGED <<fuelLoading, fuelError, fuelCalls>>
    ELSE /\ fuelLoading' = TRUE
         /\ fuelError' = FALSE
         /\ fuelCalls' = Append(fuelCalls, [vehicleId |-> id, pc |-> "fetch",
                                            outcome |-> "none", snapshots |-> <<>>])
         /\ UNCHANGED <<shownFuelResult, fuelLastTimestamp>>

\* App.vue:36-39 openDrawer on a row of the list or of the priority panel,
\* then the watcher of lines 294-299
OpenDrawer(id) ==
    /\ CacheHas(fuelCache, id) \/ Len(fuelCalls) < MaxFuelCalls
    /\ selectedVehicle' = id
    /\ drawerOpen' = TRUE
    /\ LoadFuelDataStarts(id)
    /\ UNCHANGED <<now, fuelCache, fuelTimestampCache>>
    /\ UNCHANGED <<scoreVars, serviceVars, progressVars, fuelVars, queueVars, cycleVars,
                   anomalyVars>>

\* App.vue:701 on the close event, then the watcher of lines 300-305
CloseDrawer ==
    /\ drawerOpen
    /\ drawerOpen' = FALSE
    /\ shownFuelResult' = <<>>
    /\ fuelLastTimestamp' = NoTimestamp
    /\ fuelError' = FALSE
    /\ fuelLoading' = FALSE
    /\ UNCHANGED <<now, selectedVehicle, fuelCache, fuelTimestampCache, fuelCalls>>
    /\ UNCHANGED <<scoreVars, serviceVars, progressVars, fuelVars, queueVars, cycleVars,
                   anomalyVars>>

\* lines 275-283 and 288-290: the fetch of call i resolves
FuelFetchResolves(i, series) ==
    /\ fuelCalls[i].pc = "fetch"
    /\ LET id        == fuelCalls[i].vehicleId
           result    == evaluateFuelRisk(series, roundTieUp)
           timestamp == extractLastTimestamp(series)
       IN  /\ fuelCache' = CacheSet(fuelCache, id, result)
           /\ fuelTimestampCache' = CacheSet(fuelTimestampCache, id, timestamp)
           /\ shownFuelResult' = <<result>>
           /\ fuelLastTimestamp' = timestamp
    /\ fuelLoading' = FALSE
    /\ fuelCalls' = [fuelCalls EXCEPT ![i] = [@ EXCEPT !.pc = "done",
                                                       !.outcome = "resolved",
                                                       !.snapshots = series]]
    /\ UNCHANGED <<now, drawerOpen, selectedVehicle, fuelError>>
    /\ UNCHANGED <<scoreVars, serviceVars, progressVars, fuelVars, queueVars, cycleVars,
                   anomalyVars>>

\* lines 284-290: the fetch of call i rejects (network error, non-OK answer)
FuelFetchRejects(i) ==
    /\ fuelCalls[i].pc = "fetch"
    /\ fuelError' = TRUE
    /\ shownFuelResult' = <<>>
    /\ fuelLastTimestamp' = NoTimestamp
    /\ fuelLoading' = FALSE
    /\ fuelCalls' = [fuelCalls EXCEPT ![i] = [@ EXCEPT !.pc = "done",
                                                       !.outcome = "rejected"]]
    /\ UNCHANGED <<now, drawerOpen, selectedVehicle, fuelCache, fuelTimestampCache>>
    /\ UNCHANGED <<scoreVars, serviceVars, progressVars, fuelVars, queueVars, cycleVars,
                   anomalyVars>>

InitDrawer ==
    /\ now = BaseTime
    /\ DrawerIdle
    /\ ScoreIdle /\ ServiceIdle /\ ProgressIdle /\ FuelIdle /\ QueueIdle
    /\ CycleIdle /\ AnomalyIdle

NextDrawer ==
    \/ \E id \in DrawerVehicleIds : OpenDrawer(id)
    \/ CloseDrawer
    \/ \E i \in 1..Len(fuelCalls) :
          \/ \E series \in FuelSeriesOf(fuelCalls[i].vehicleId) : FuelFetchResolves(i, series)
          \/ FuelFetchRejects(i)

SpecDrawer == InitDrawer /\ [][NextDrawer]_vars

(***************************************************************************)
(* The server's GET /api/vehicle/:vehicleCode/fuelAnomaly,                  *)
(* src/unnamed/part_010:138-294, for a request without debugFuelDrop and    *)
(* with a non-blank vehicleCode.                                           *)
(*                                                                         *)
(* A sensor point is [t, v]: t in seconds (the ISO strings of the API sort  *)
(* as their instants do), v in millilitres for fuel and in km/h for speed,  *)
(* Undefined if the point carries none.  fuelDrop is in hundredths of a     *)
(* litre and durationMinutes in tenths of a minute, as toFixed leaves them. *)
(***************************************************************************)
\* Number.prototype.toFixed followed by parseFloat, for the value num / den
\* in units of the last digit kept: the nearest whole number of units; when
\* the decimal value lies halfway the double lies just above or just below,
\* which tieUp decides
ToFixedUnits(num, den, tieUp) ==
    IF 2 * (num % den) = den
    THEN (IF tieUp THEN (num \div den) + 1 ELSE num \div den)
    ELSE (2 * num + den) \div (2 * den)

\* line 204: the points that carry a time and a value
ValidPoints(points) == SelectSeq(points, LAMBDA p : p.t # Undefined /\ p.v # Undefined)

\* line 205: sort by t; the sort is stable
InsertByTime(sorted, x) ==
    LET k == Cardinality({j \in 1..Len(sorted) : sorted[j].t <= x.t})
    IN  SubSeq(sorted, 1, k) \o <<x>> \o SubSeq(sorted, k + 1, Len(sorted))

RECURSIVE SortByTime(_, _)
SortByTime(points, n) ==
    IF n = 0 THEN <<>>
    ELSE InsertByTime(SortByTime(points, n - 1), points[n])

\* lines 199-206
findSensor(points) ==
    LET valid == ValidPoints(points)
    IN  SortByTime(valid, Len(valid))

\* lines 248-249: Math.abs of a difference
AbsDiff(a, b) == IF a >= b THEN a - b ELSE b - a

\* lines 246-252: the reduce over the first n speed points (n >= 1)
RECURSIVE ClosestSpeedOver(_, _, _)
ClosestSpeedOver(points, n, currTime) ==
    IF n = 1 THEN points[1]
    ELSE LET best == ClosestSpeedOver(points, n - 1, currTime)
             p    == points[n]
         IN  IF AbsDiff(p.t, currTime) < AbsDiff(best.t, currTime) THEN p ELSE best

\* lines 244-254, a speed of exactly 3 km/h counted as standing
IsStationaryInclusive(speedPoints, currTime) ==
    /\ Len(speedPoints) > 0
    /\ ClosestSpeedOver(speedPoints, Len(speedPoints), currTime).v <= 3

\* lines 244-254
IsStationary(speedPoints, currTime) ==
    /\ Len(speedPoints) > 0
    /\ ClosestSpeedOver(speedPoints, Len(speedPoints), currTime).v < 3

AnomalyError(code) ==
    [http |-> code, status |-> "error", severity |-> "none", riskImpact |-> Undefined,
     fuelDrop |-> Undefined, durationMinutes |-> Undefined]

InsufficientData ==
    [http |-> 200, status |-> "insufficient_data", severity |-> "none", riskImpact |-> 0,
     fuelDrop |-> Undefined, durationMinutes |-> Undefined]

\* lines 230-232: { status: "normal" }
NormalNoImpact == [InsufficientData EXCEPT !.status = "normal", !.riskImpact = Undefined]

\* line 283
NormalResult == [InsufficientData EXCEPT !.status = "normal"]

\* lines 260-281
AnomalyResult(severity, riskImpact, fuelDrop, durationMinutes) ==
    [http |-> 200, status |-> "anomaly", severity |-> severity, riskImpact |-> riskImpact,
     fuelDrop |-> fuelDrop, durationMinutes |-> durationMinutes]

\* lines 172-293: up is what the sensor API answered
fuelAnomaly(up, tieUp) ==
    IF up.kind = "nonOk" THEN AnomalyError(up.status)
    ELSE IF up.kind = "rejected" THEN AnomalyError(500)
    ELSE IF up.kind = "notArray" THEN InsufficientData
    ELSE
        LET fuelPoints  == findSensor(up.fuel)
            speedPoints == findSensor(up.speed)
        IN  IF Len(fuelPoints) < 2 THEN InsufficientData
            ELSE
                LET prev == fuelPoints[Len(fuelPoints) - 1]
                    curr == fuelPoints[Len(fuelPoints)]
                    fuelDrop == ToFixedUnits(prev.v - curr.v, 10, tieUp)
                    durationMinutes == ToFixedUnits(curr.t - prev.t, 6, tieUp)
                    isStationary == IsStationary(speedPoints, curr.t)
                IN  IF fuelDrop <= 0 THEN NormalNoImpact
                    ELSE IF durationMinutes <= 0 THEN InsufficientData
                    ELSE IF isStationary /\ fuelDrop > 500 /\ durationMinutes <= 100
                         THEN AnomalyResult("high", 3, fuelDrop, durationMinutes)
                    ELSE IF isStationary /\ fuelDrop >= 300 /\ fuelDrop <= 500
                         THEN AnomalyResult("low", 1, fuelDrop, durationMinutes)
                    ELSE NormalResult

(***************************************************************************)
(* One request to the endpoint: Init draws what the sensor API answers,     *)
(* AnswerFuelAnomaly runs the handler.  The fuel values give drops of 5.000, *)
(* 5.004, 6.000, 2.996 and 3.004 L, a drop of 0.004 L and refuellings; the   *)
(* times give distances of 0 s, 2 s, 3 s and about 10 minutes on both sides  *)
(* of the limit.                                                           *)
(***************************************************************************)
FuelPointSamples ==
    {[t |-> t, v |-> v] : t \in {0, 2, 3, 600, 604},
                          v \in {50000, 45000, 44996, 44000, 47004, Undefined}}

\* the Speed sensor: no point, a point without value, points at the instant
\* of the last fuel reading and away from it, two points equally close
SpeedSeries ==
    {<<>>,
     <<[t |-> 600, v |-> Undefined]>>,
     <<[t |-> 600, v |-> 2]>>,
     <<[t |-> 600, v |-> 3]>>,
     <<[t |-> 590, v |-> 0], [t |-> 0, v |-> 50], [t |-> 610, v |-> 50]>>}

UpstreamFailures ==
    {[kind |-> "nonOk", status |-> 503, fuel |-> <<>>, speed |-> <<>>],
     [kind |-> "rejected", status |-> 0, fuel |-> <<>>, speed |-> <<>>],
     [kind |-> "notArray", status |-> 200, fuel |-> <<>>, speed |-> <<>>]}

InitAnomaly ==
    /\ now = BaseTime
    /\ \/ \E n \in 0..MaxFuelPoints :
              \E f \in [1..n -> FuelPointSamples] :
                  \E sp \in SpeedSeries :
                      upstream = [kind |-> "ok", status |-> 200, fuel |-> f, speed |-> sp]
       \/ upstream \in UpstreamFailures
    /\ anomalyResponse = <<>>
    /\ snapshots = <<>> /\ roundTieUp \in BOOLEAN /\ fuelResult = <<>>
    /\ ScoreIdle /\ ServiceIdle /\ ProgressIdle /\ QueueIdle /\ CycleIdle
    /\ DrawerIdle

AnswerFuelAnomaly ==
    /\ anomalyResponse = <<>>
    /\ anomalyResponse' = <<fuelAnomaly(upstream, roundTieUp)>>
    /\ UNCHANGED <<now, upstream>>
    /\ UNCHANGED <<scoreVars, serviceVars, progressVars, fuelVars, queueVars,
                   cycleVars, drawerVars>>

NextAnomaly == AnswerFuelAnomaly

SpecAnomaly == InitAnomaly /\ [][NextAnomaly]_vars

(***************************************************************************)
(* The system view of the dashboard, src/unnamed/part_001:1174-1192: the    *)
(* computed riskFactorTotals over the published collection.                 *)
(***************************************************************************)
NoFactorTotals == [speedTotal |-> 0, noUpdateTotal |-> 0, ecoTotal |-> 0, weatherTotal |-> 0]

\* Number(r.value) || 0
NumberOrZero(x) == IF IsNumber(x) THEN x ELSE 0

\* lines 1181-1188: what one reason adds to the totals t
AddReasonToTotals(t, r) ==
    IF r.type = "speedExtreme" THEN [t EXCEPT !.speedTotal = @ + 4]
    ELSE IF r.type = "speedHigh" THEN [t EXCEPT !.speedTotal = @ + 3]
    ELSE IF r.type = "speedAboveLimit" THEN [t EXCEPT !.speedTotal = @ + 2]
    ELSE IF r.type = "speedSlightlyElevated" THEN [t EXCEPT !.speedTotal = @ + 1]
    ELSE IF r.type = "noUpdateCritical" THEN [t EXCEPT !.noUpdateTotal = @ + 6]
    ELSE IF r.type = "noUpdate" THEN [t EXCEPT !.noUpdateTotal = @ + 2]
    ELSE IF r.type = "ecoEvent" THEN [t EXCEPT !.ecoTotal = @ + NumberOrZero(r.value)]
    ELSE IF r.type = "weather" /\ IsNumber(r.value) /\ r.value > 0
         THEN [t EXCEPT !.weatherTotal = @ + r.value]
    ELSE t

\* line 1180: the inner loop over the first n reasons
RECURSIVE AddReasonsToTotals(_, _, _)
AddReasonsToTotals(t, reasons, n) ==
    IF n = 0 THEN t
    ELSE AddReasonToTotals(AddReasonsToTotals(t, reasons, n - 1), reasons[n])

\* line 1179: the outer loop over the first n assessments
RECURSIVE riskFactorTotalsOver(_, _)
riskFactorTotalsOver(list, n) ==
    IF n = 0 THEN NoFactorTotals
    ELSE AddReasonsToTotals(riskFactorTotalsOver(list, n - 1),
                            list[n].reasons, Len(list[n].reasons))

riskFactorTotals == riskFactorTotalsOver(riskAssessments, Len(riskAssessments))

(***************************************************************************)
(* Properties of calculateRisk (specification Spec).                       *)
(***************************************************************************)
Returned == Len(riskResult) = 1

\* the call took the catch block
Faulted == EcoEventsThrow(ecoEvents) \/ WeatherThrows(weatherData)

Scored == Returned /\ ~Faulted

\* the reasons of one family, in the order they have in the list
ReasonsOf(a, types) == SelectSeq(a.reasons, LAMBDA r : r.type \in types)

SpeedTypes == {"speedExtreme", "speedHigh", "speedAboveLimit", "speedSlightlyElevated"}
StaleTypes == {"noUpdate", "noUpdateCritical"}

\* elapsed ms since the vehicle's last position, for a valid timestamp
Elapsed == now - vehicle.LastPositionTimestamp

\* the same call with one input replaced
ScoreAtSpeed(sp) ==
    calculateRisk([vehicle EXCEPT !.Speed = sp], ecoEvents, weatherData,
                  weatherEnabled, now).riskScore
ScoreWithFreshPosition ==
    calculateRisk([vehicle EXCEPT !.LastPositionTimestamp = now], ecoEvents,
                  weatherData, weatherEnabled, now).riskScore
ScoreWithoutEvents ==
    calculateRisk(vehicle, <<>>, weatherData, weatherEnabled, now).riskScore
ScoreWithoutWeather ==
    calculateRisk(vehicle, ecoEvents, NoWeather, weatherEnabled, now).riskScore

\* C1: in every assessment calculateRisk returns, the level is decided by the
\* score alone: critical from 6, warning from 3 to 5, ok below 3.
C1_LevelFromScore ==
    Returned =>
        LET a == riskResult[1]
        IN  /\ a.riskScore >= 6 => a.riskLevel = "critical"
            /\ (a.riskScore >= 3 /\ a.riskScore < 6) => a.riskLevel = "warning"
            /\ a.riskScore < 3 => a.riskLevel = "ok"

C1_Witness ==
    /\ Scored
    /\ riskResult[1].riskScore = 6
    /\ riskResult[1].riskLevel = "critical"

\* the tier the claim awards to a speed: <<points, reason type>>
ClaimedSpeedTier(sp) ==
    IF sp > 130 THEN <<4, "speedExtreme">>
    ELSE IF sp > 110 THEN <<3, "speedHigh">>
    ELSE IF sp > 95 THEN <<2, "speedAboveLimit">>
    ELSE <<1, "speedSlightlyElevated">>

C3_CriticalStale ==
    (Scored /\ IsNumber(vehicle.LastPositionTimestamp) /\ Elapsed > 360 * MsPerMinute) =>
        LET a == riskResult[1]
        IN  /\ ReasonsOf(a, StaleTypes) =
                  <<[type |-> "noUpdateCritical", value |-> Elapsed \div MsPerMinute]>>
            /\ a.riskScore - ScoreWithFreshPosition = 6

C3_Witness ==
    /\ Scored
    /\ Elapsed = 360 * MsPerMinute + 1
    /\ ReasonsOf(riskResult[1], StaleTypes) = <<[type |-> "noUpdateCritical", value |-> 360]>>

\* the staleness tier of a number of minutes: <<points, reason type>>
ClaimedStaleTier(exceeds(_)) ==
    IF exceeds(360) THEN <<6, "noUpdateCritical">>
    ELSE IF exceeds(180) THEN <<4, "noUpdate">>
    ELSE IF exceeds(60) THEN <<2, "noUpdate">>
    ELSE IF exceeds(15) THEN <<1, "noUpdate">>
    ELSE <<0, "none">>

StaleTierAwarded(tier) ==
    LET a  == riskResult[1]
        sr == ReasonsOf(a, StaleTypes)
    IN  /\ a.riskScore - ScoreWithFreshPosition = tier[1]
        /\ IF tier[1] = 0 THEN sr = <<>>
           ELSE sr = <<[type |-> tier[2], value |-> Elapsed \div MsPerMinute]>>

\* C4 as stated: the tier awarded is the one of the floored minute value.
C4_TierOfFlooredMinutes ==
    (Scored /\ IsNumber(vehicle.LastPositionTimestamp)) =>
        LET minutes == Elapsed \div MsPerMinute
            Exceeds(m) == minutes > m
        IN  StaleTierAwarded(ClaimedStaleTier(Exceeds))

\* C4 amended: the tier awarded is the one of the unfloored elapsed time
\* (first match of elapsed > 360, 180, 60, 15 minutes), and the reason
\* carries the floored minutes.
C4_TierOfElapsedTime ==
    (Scored /\ IsNumber(vehicle.LastPositionTimestamp)) =>
        LET Exceeds(m) == Elapsed > m * MsPerMinute
        IN  StaleTierAwarded(ClaimedStaleTier(Exceeds))

C4_Witness ==
    /\ Scored
    /\ Elapsed = 180 * MsPerMinute + 1
    /\ ReasonsOf(riskResult[1], StaleTypes) = <<[type |-> "noUpdate", value |-> 180]>>
    /\ riskResult[1].riskScore - ScoreWithFreshPosition = 4

\* the sum of the severities of the events handed to the call
RECURSIVE SeveritySum(_)
SeveritySum(events) ==
    IF events = <<>> THEN 0
    ELSE events[1].EventSeverity + SeveritySum(Tail(events))

EcoContribution(a) ==
    /\ a.riskScore - ScoreWithoutEvents = SeveritySum(ecoEvents)
    /\ \A i \in 1..Len(ReasonsOf(a, {"ecoEvent"})) :
          ReasonsOf(a, {"ecoEvent"})[i] =
              [type  |-> "ecoEvent",
               value |-> SeveritySum(ecoEvents),
               count |-> Len(ecoEvents)]
    /\ Len(ReasonsOf(a, {"ecoEvent"})) <= 1

\* C5 as stated: the severity sum is added to the score, and the one
\* aggregated eco-event reason is there if and only if the sum is non-zero.
C5_EcoReasonIffSumNonZero ==
    Scored =>
        /\ EcoContribution(riskResult[1])
        /\ ReasonsOf(riskResult[1], {"ecoEvent"}) # <<>> <=> SeveritySum(ecoEvents) # 0

\* C5 amended: the severity sum is added to the score, and the one aggregated
\* eco-event reason (value = the sum, count = the number of events) is there
\* if and only if the list of events is non-empty.
C5_EcoReasonIffEvents ==
    Scored =>
        /\ EcoContribution(riskResult[1])
        /\ ReasonsOf(riskResult[1], {"ecoEvent"}) # <<>> <=> ecoEvents # <<>>

C5_Witness ==
    /\ Scored
    /\ ecoEvents = <<Event(1), Event(2), Event(3)>>
    /\ ReasonsOf(riskResult[1], {"ecoEvent"}) =
          <<[type |-> "ecoEvent", value |-> 6, count |-> 3]>>

\* the contribution the weather computation returned for the observation
RawWeatherContribution ==
    IF weatherData.present /\ weatherData.outcome = "number"
    THEN weatherData.bump ELSE 0

\* C6: with an observation present, the weather reason is there exactly when
\* the raw contribution is positive, whatever the flag; the score holds the
\* contribution only when weatherEnabled: disabled, it is the score of the
\* same call without any observation.
C6_WeatherOnlyCountedWhenEnabled ==
    (Scored /\ weatherData.present) =>
        LET a  == riskResult[1]
            wr == ReasonsOf(a, {"weather"})
        IN  /\ IF RawWeatherContribution > 0
               THEN wr = <<[type |-> "weather", value |-> RawWeatherContribution]>>
               ELSE wr = <<>>
            /\ ~weatherEnabled => a.riskScore = ScoreWithoutWeather
            /\ weatherEnabled => a.riskScore = ScoreWithoutWeather + RawWeatherContribution

C6_Witness ==
    /\ Scored
    /\ weatherData.present
    /\ ~weatherEnabled
    /\ RawWeatherContribution = 2
    /\ ReasonsOf(riskResult[1], {"weather"}) = <<[type |-> "weather", value |-> 2]>>
    /\ riskResult[1].riskScore = ScoreWithoutWeather

ExpectedSpeedReasons ==
    IF IsNumber(vehicle.Speed) /\ vehicle.Speed > 85
    THEN <<[type |-> ClaimedSpeedTier(vehicle.Speed)[2], value |-> vehicle.Speed]>>
    ELSE <<>>
ExpectedSpeedPoints ==
    IF IsNumber(vehicle.Speed) /\ vehicle.Speed > 85
    THEN ClaimedSpeedTier(vehicle.Speed)[1] ELSE 0

ExpectedStaleTier ==
    LET Exceeds(m) == IsNumber(vehicle.LastPositionTimestamp) /\ Elapsed > m * MsPerMinute
    IN  ClaimedStaleTier(Exceeds)
ExpectedStaleReasons ==
    IF ExpectedStaleTier[1] = 0 THEN <<>>
    ELSE <<[type |-> ExpectedStaleTier[2], value |-> Elapsed \div MsPerMinute]>>

ExpectedEcoReasons ==
    IF ecoEvents = <<>> THEN <<>>
    ELSE <<[type |-> "ecoEvent", value |-> SeveritySum(ecoEvents), count |-> Len(ecoEvents)]>>

ExpectedWeatherReasons ==
    IF RawWeatherContribution > 0
    THEN <<[type |-> "weather", value |-> RawWeatherContribution]>>
    ELSE <<>>

\* C8: on the normal path the score is the sum of the speed points, the
\* staleness points, the severity sum and, when enabled, the weather points;
\* the reasons are those of the tiers that fired, at most one per family, in
\* the order speed, staleness, eco-event, weather.
C8_ScoreAndReasons ==
    Scored =>
        LET a == riskResult[1]
        IN  /\ a.riskScore = ExpectedSpeedPoints + ExpectedStaleTier[1]
                               + SeveritySum(ecoEvents)
                               + (IF weatherEnabled THEN RawWeatherContribution ELSE 0)
            /\ a.reasons = ExpectedSpeedReasons \o ExpectedStaleReasons
                               \o ExpectedEcoReasons \o ExpectedWeatherReasons

C8_Witness ==
    /\ Scored
    /\ vehicle.Speed = 140
    /\ Elapsed = 10 * MsPerMinute
    /\ ecoEvents = <<Event(2)>>
    /\ ~weatherData.present
    /\ riskResult[1].riskScore = 6
    /\ riskResult[1].riskLevel = "critical"
    /\ riskResult[1].reasons = <<[type |-> "speedExtreme", value |-> 140],
                                 [type |-> "ecoEvent", value |-> 2, count |-> 1]>>

(***************************************************************************)
(* Properties of getServiceInfo (specification SpecService).               *)
(***************************************************************************)

\* C9: every ServiceInfo returned is critical for remainingKm <= 500,
\* warning for 500 < remainingKm <= 2000, ok above 2000.
C9_StatusFromRemainingKm ==
    \A i \in 1..Len(serviceLog) :
        LET info == serviceLog[i].info
        IN  /\ info.remainingKm <= 500 => info.serviceStatus = "critical"
            /\ (info.remainingKm > 500 /\ info.remainingKm <= 2000)
                  => info.serviceStatus = "warning"
            /\ info.remainingKm > 2000 => info.serviceStatus = "ok"

C9_Witness ==
    /\ \E i \in 1..Len(serviceLog) :
          serviceLog[i].info.remainingKm = 500 /\ serviceLog[i].info.serviceStatus = "critical"
    /\ \E i \in 1..Len(serviceLog) :
          serviceLog[i].info.remainingKm = 2000 /\ serviceLog[i].info.serviceStatus = "warning"
    /\ \E i \in 1..Len(serviceLog) :
          serviceLog[i].info.remainingKm = 2001 /\ serviceLog[i].info.serviceStatus = "ok"

RECURSIVE PolynomialValue(_, _)
PolynomialValue(id, n) ==
    IF n = 0 THEN 0
    ELSE 31 * PolynomialValue(id, n - 1) + id[n]

\* "0UBSNAI": its polynomial is congruent to 2^31 modulo 2^32, so the wrapped
\* hash is the minimum 32-bit integer and its absolute value is 2^31
MinHashId == <<48, 85, 66, 83, 78, 65, 73>>

\* C11: for every vehicle id, the empty id and an id whose hash wraps to the
\* minimum signed 32-bit integer included, getServiceInfo yields remainingKm
\* in 0..9999, odometer in 10000..180000 and nextServiceAt = odometer +
\* remainingKm, both derived from the absolute value of the wrapped base-31
\* polynomial hash: odometer = 10000 + |h| mod 170001 and remainingKm =
\* (|h| div 16) mod 10000 (for |h| = 2^31: 41016 and 7728).
C11_HashAndRanges ==
    \A i \in 1..Len(serviceLog) :
        LET id   == serviceLog[i].vehicleId
            info == serviceLog[i].info
            p    == PolynomialValue(id, Len(id))
        IN  /\ info.remainingKm \in 0..(SERVICE_INTERVAL_KM - 1)
            /\ info.odometer \in ODOMETER_MIN_KM..(ODOMETER_MIN_KM + ODOMETER_RANGE_KM)
            /\ info.nextServiceAt = info.odometer + info.remainingKm
            /\ Len(id) <= 4 =>
                  /\ info.odometer = ODOMETER_MIN_KM + (p % (ODOMETER_RANGE_KM + 1))
                  /\ info.remainingKm = (p \div 16) % SERVICE_INTERVAL_KM
            /\ id = MinHashId =>
                  /\ HashLoop(id, Len(id)) = MinInt32
                  /\ info.odometer = 41016
                  /\ info.remainingKm = 7728

C11_Witness ==
    /\ \E i \in 1..Len(serviceLog) :
          /\ serviceLog[i].vehicleId = <<>>
          /\ serviceLog[i].info.odometer = ODOMETER_MIN_KM
          /\ serviceLog[i].info.remainingKm = 0
    /\ \E i \in 1..Len(serviceLog) :
          /\ serviceLog[i].vehicleId = MinHashId
          /\ serviceLog[i].info.nextServiceAt = 41016 + 7728

(***************************************************************************)
(* Properties of serviceProgressPercent (specification SpecProgress).      *)
(***************************************************************************)
\* round(100 * (10000 - remainingKm) / 10000): the nearest whole percent, a
\* tie going up, clamped to 0..100
ClaimedProgressPercent(km) ==
    LET exact == (2 * 100 * (SERVICE_INTERVAL_KM - km) + SERVICE_INTERVAL_KM)
                     \div (2 * SERVICE_INTERVAL_KM)
    IN  IF exact < 0 THEN 0 ELSE IF exact > 100 THEN 100 ELSE exact

\* C12: for every remainingKm, serviceProgressPercent returns
\* round(100 * (10000 - remainingKm) / 10000) clamped to 0..100: 100 when
\* remainingKm <= 0, 0 when remainingKm >= 10000, never outside 0..100.
C12_RoundedPercent ==
    progressPercent # <<>> =>
        /\ progressPercent[1] = ClaimedProgressPercent(kmToService)
        /\ progressPercent[1] \in 0..100
        /\ kmToService <= 0 => progressPercent[1] = 100
        /\ kmToService >= SERVICE_INTERVAL_KM => progressPercent[1] = 0

(***************************************************************************)
(* Properties of evaluateFuelRisk (specification SpecFuel).                *)
(***************************************************************************)
FuelEvaluated == fuelResult # <<>>

\* C13: for every series of fewer than 2 snapshots, whatever the snapshots
\* carry, evaluateFuelRisk returns a normal result with severity none and
\* suspiciousDrop false, and no drop amount or description.
C13_ShortSeriesIsNone ==
    (FuelEvaluated /\ Len(snapshots) < 2) =>
        /\ fuelResult[1].severity = "none"
        /\ fuelResult[1].suspiciousDrop = FALSE
        /\ fuelResult[1].dropAmount = Undefined
        /\ fuelResult[1].description = NoDescription

C13_Witness ==
    /\ FuelEvaluated
    /\ Len(snapshots) = 1
    /\ snapshots[1].fuelVolume = 4488
    /\ snapshots[1].speed = 3
    /\ fuelResult[1].severity = "none"

\* the consecutive pairs (by the position of their second snapshot) whose
\* volumes and speed are present, whose drop is above 5 L and whose second
\* snapshot is at 3 km/h or less
QualifyingPairs ==
    {i \in 2..Len(snapshots) :
        /\ snapshots[i - 1].fuelVolume # Undefined
        /\ snapshots[i].fuelVolume # Undefined
        /\ snapshots[i].speed # Undefined
        /\ snapshots[i - 1].fuelVolume - snapshots[i].fuelVolume > 500
        /\ snapshots[i].speed <= 3}

FirstQualifyingPair == CHOOSE i \in QualifyingPairs : \A j \in QualifyingPairs : i <= j

DropOfPair(i) == snapshots[i - 1].fuelVolume - snapshots[i].fuelVolume

\* tenths is a nearest tenth of a litre to the amount of cl centilitres
NearestTenth(tenths, cl) == 10 * tenths - cl \in -5..5

\* C14: for every series of at least 2 snapshots, the result is severity
\* high with suspiciousDrop true if and only if some consecutive pair drops
\* by more than 5 L with the later snapshot at 3 km/h or less; dropAmount is
\* then the drop of the first such pair rounded to one decimal, whatever
\* later pairs drop by.
C14_HighIffSuddenDrop ==
    (FuelEvaluated /\ Len(snapshots) >= 2) =>
        /\ fuelResult[1].severity = "high" <=> QualifyingPairs # {}
        /\ fuelResult[1].suspiciousDrop <=> QualifyingPairs # {}
        /\ QualifyingPairs # {} =>
              NearestTenth(fuelResult[1].dropAmount, DropOfPair(FirstQualifyingPair))

C14_Witness ==
    /\ FuelEvaluated
    /\ Len(snapshots) = 3
    /\ QualifyingPairs = {2, 3}
    /\ DropOfPair(2) = 1005
    /\ DropOfPair(3) = 507
    /\ fuelResult[1].severity = "high"
    /\ fuelResult[1].dropAmount = 101

\* the consumption rule: both cumulative readings and the final speed are
\* present, (last - first) over length / 60 hours is above 10 L/h, and the
\* final speed is below 10 km/h
ConsumptionRuleMatches ==
    LET first == snapshots[1]
        last  == snapshots[Len(snapshots)]
    IN  /\ first.fuelConsumedTotal # Undefined
        /\ last.fuelConsumedTotal # Undefined
        /\ last.speed # Undefined
        /\ (last.fuelConsumedTotal - first.fuelConsumedTotal) * 60
               > 10 * 100 * Len(snapshots)
        /\ last.speed < 10

\* C15: for every series of at least 2 snapshots the sudden-drop rule is
\* tried first: the result is high when some pair matches it, whether or
\* not the consumption rule matches too; medium exactly when no pair
\* matches it and the consumption rule (rate over one reading per minute
\* above 10 L/h, final speed below 10 km/h) matches; none when neither
\* matches.
C15_RulesInPriorityOrder ==
    (FuelEvaluated /\ Len(snapshots) >= 2) =>
        /\ QualifyingPairs # {} => fuelResult[1].severity = "high"
        /\ fuelResult[1].severity = "medium"
              <=> (QualifyingPairs = {} /\ ConsumptionRuleMatches)
        /\ (QualifyingPairs = {} /\ ~ConsumptionRuleMatches)
              => fuelResult[1].severity = "none"

C15_Witness ==
    /\ FuelEvaluated
    /\ Len(snapshots) = 3
    /\ QualifyingPairs # {}
    /\ ConsumptionRuleMatches
    /\ fuelResult[1].severity = "high"

(***************************************************************************)
(* Properties of loadData (specification SpecCycle).                       *)
(***************************************************************************)
\* the calls of loadData that got their roster
WithRoster ==
    {c \in 1..Len(cycles) :
        cycles[c].pc = "tasks" \/ cycles[c].outcome \in {"taskRejected", "published"}}

\* the tasks of call c that have not failed
NotFailed(c) == {i \in 1..Len(cycles[c].tasks) : cycles[c].tasks[i].pc # "rejected"}

\* a record with a complete assessment and a complete serviceInfo
FullyPopulated(r) ==
    /\ r.vehicleId # Undefined
    /\ IsNumber(r.speed)
    /\ IsNumber(r.riskScore)
    /\ r.riskLevel \in {"ok", "warning", "critical"}
    /\ IsNumber(r.calculatedAt)
    /\ IsNumber(r.serviceInfo.odometer)
    /\ IsNumber(r.serviceInfo.nextServiceAt)
    /\ IsNumber(r.serviceInfo.remainingKm)
    /\ r.serviceInfo.serviceStatus \in {"ok", "warning", "critical"}

\* C16: in one call of loadData a failing vehicle task never aborts the
\* batch: no call ends because a task rejected, and the result of a call
\* holds one fully populated record for every roster vehicle whose task did
\* not fail and none for a vehicle whose task failed.
C16_FailureIsolated ==
    \A c \in WithRoster :
        /\ cycles[c].outcome # "taskRejected"
        /\ cycles[c].outcome = "published" =>
              /\ Len(cycles[c].result) = Cardinality(NotFailed(c))
              /\ \A i \in NotFailed(c) :
                    \E k \in 1..Len(cycles[c].result) :
                        /\ cycles[c].result[k].vehicleId = cycles[c].roster[i].Code
                        /\ FullyPopulated(cycles[c].result[k])

\* the tasks of object vehicles, as pairs <<call, position in the roster>>
VehicleTasks ==
    UNION {{<<c, i>> : i \in {j \in 1..Len(cycles[c].tasks) : ~cycles[c].roster[j].isNull}}
              : c \in 1..Len(cycles)}

BothCoordinatesPresent(v) ==
    /\ v.Latitude \notin {NoCoordinate, "", " "}
    /\ v.Longitude \notin {NoCoordinate, "", " "}

\* C17: a failed or non-OK eco fetch leaves the task with an empty event
\* list; the weather fetch is issued only if the toggle was on and both
\* coordinates are present; a failed or non-OK weather fetch leaves the task
\* without an observation; no such task rejects; the task returns an
\* assessment that carries the speed and staleness reasons of its vehicle
\* (and no eco or weather reason from a fetch that failed); and when its
\* call publishes, the record of the vehicle is in the result.
C17_FetchFailureIsNoData ==
    \A ci \in VehicleTasks :
        LET c == ci[1]
            i == ci[2]
            t == cycles[c].tasks[i]
            v == cycles[c].roster[i]
        IN  /\ t.pc # "rejected"
            /\ (t.ecoSettled /\ t.ecoFailed) => t.ecoEvents = <<>>
            /\ t.weather # "notFetched" => (t.enabledAtDecision /\ BothCoordinatesPresent(v))
            /\ t.weather = "failed" => t.weatherData = NoWeather
            /\ t.pc = "done" =>
                  /\ Len(t.assessment) = 1
                  /\ ReasonsOf(t.assessment[1], SpeedTypes \cup StaleTypes)
                        = SpeedRisk(v).reasons \o UpdateDelayRisk(v, now).reasons
                  /\ t.ecoFailed => ReasonsOf(t.assessment[1], {"ecoEvent"}) = <<>>
                  /\ t.weather \in {"notFetched", "failed"}
                        => ReasonsOf(t.assessment[1], {"weather"}) = <<>>
                  /\ (t.ecoFailed /\ t.weather \in {"notFetched", "failed"})
                        => t.assessment[1].riskScore
                              = SpeedRisk(v).points + UpdateDelayRisk(v, now).points
            /\ cycles[c].outcome = "published" =>
                  /\ Len(cycles[c].result) = Len(cycles[c].roster)
                  /\ cycles[c].result[i].vehicleId = v.Code
                  /\ cycles[c].result[i].riskScore = t.assessment[1].riskScore

C17_Witness ==
    \E c \in 1..Len(cycles) :
        /\ cycles[c].outcome = "published"
        /\ cycles[c].roster = <<VehicleA, VehicleB>>
        /\ cycles[c].tasks[1].ecoFailed
        /\ cycles[c].tasks[1].weather = "failed"
        /\ cycles[c].tasks[2].ecoFailed
        /\ cycles[c].result[1].vehicleId = "A"
        /\ cycles[c].result[1].riskScore = 4
        /\ cycles[c].result[2].vehicleId = "B"
        /\ cycles[c].result[2].riskScore = 1

\* C18: the published collection is exactly the records of the call that
\* published last, one per vehicle of that call's roster in roster order:
\* nothing of an earlier call's result is left in it.
C18_ResultReplaced ==
    publishedBy # 0 =>
        LET cy == cycles[publishedBy]
        IN  /\ cy.outcome = "published"
            /\ Len(riskAssessments) = Len(cy.roster)
            /\ \A k \in 1..Len(riskAssessments) :
                  /\ riskAssessments[k].vehicleId = cy.roster[k].Code
                  /\ riskAssessments[k]
                        = AssessmentWithService(cy.tasks[k].assessment[1], cy.roster[k])

C18_Witness ==
    /\ publishedBy = 2
    /\ cycles[1].outcome = "published"
    /\ cycles[1].roster = <<VehicleA, VehicleB>>
    /\ cycles[2].roster = <<VehicleB>>
    /\ Len(riskAssessments) = 1
    /\ riskAssessments[1].vehicleId = "B"

(***************************************************************************)
(* Properties of the priority queue (specification SpecQueue).             *)
(***************************************************************************)
QueueComputed == topFive # <<>>

\* the largest numeric value carried by a noUpdate or noUpdateCritical
\* reason, 0 if there is none
ClaimedMinutes(a) ==
    LET stale == {k \in 1..Len(a.reasons) :
                     a.reasons[k].type \in StaleTypes /\ IsNumber(a.reasons[k].value)}
    IN  IF stale = {} THEN 0
        ELSE LET top == CHOOSE k \in stale :
                            \A j \in stale : a.reasons[j].value <= a.reasons[k].value
             IN  a.reasons[top].value

ClaimedPredictedToWorsen(a) ==
    a.riskLevel = "critical" \/ ReasonsOf(a, {"noUpdateCritical"}) # <<>>

\* 60 * (riskScore * 2 + minutes / 60 + (3 if predictedToWorsen else 0))
ClaimedPriority(a) ==
    60 * 2 * a.riskScore + ClaimedMinutes(a)
        + (IF ClaimedPredictedToWorsen(a) THEN 60 * 3 ELSE 0)

QueuedIds == {topFive[1][i].assessment.vehicleId : i \in 1..Len(topFive[1])}

\* C19: the queue holds min(5, n) of the n assessments, each at most once,
\* in non-increasing order of composite priority, and no assessment left
\* out has a composite priority strictly greater than a queued one.
C19_TopFiveSorted ==
    QueueComputed =>
        LET q == topFive[1]
        IN  /\ Len(q) = (IF Len(assessments) < 5 THEN Len(assessments) ELSE 5)
            /\ Cardinality(QueuedIds) = Len(q)
            /\ \A i \in 1..Len(q) :
                  /\ q[i].assessment.vehicleId \in 1..Len(assessments)
                  /\ q[i].assessment = assessments[q[i].assessment.vehicleId]
            /\ \A i \in 1..(Len(q) - 1) : q[i].priorityScore >= q[i + 1].priorityScore
            /\ \A k \in 1..Len(assessments) :
                  k \notin QueuedIds =>
                      \A i \in 1..Len(q) :
                          ClaimedPriority(assessments[k]) <= q[i].priorityScore

C19_Witness ==
    /\ QueueComputed
    /\ Len(assessments) = 6
    /\ Len(topFive[1]) = 5
    /\ 1 \notin QueuedIds
    /\ topFive[1][1].assessment.vehicleId = 6
    /\ topFive[1][1].priorityScore > topFive[1][5].priorityScore
    /\ topFive[1][5].priorityScore > ClaimedPriority(assessments[1])

\* C20: every queue item carries the composite priority riskScore * 2 +
\* minutes / 60 + (3 if predictedToWorsen else 0) of its assessment, with
\* minutes the largest value of its noUpdate and noUpdateCritical reasons
\* (0 without one) and predictedToWorsen true exactly for a critical level
\* or a noUpdateCritical reason.
C20_CompositePriority ==
    QueueComputed =>
        \A i \in 1..Len(topFive[1]) :
            LET item == topFive[1][i]
            IN  /\ item.minutesWithoutCommunication = ClaimedMinutes(item.assessment)
                /\ item.predictedToWorsen = ClaimedPredictedToWorsen(item.assessment)
                /\ item.priorityScore = ClaimedPriority(item.assessment)

C20_Witness ==
    /\ QueueComputed
    /\ \E i \in 1..Len(topFive[1]) :
          /\ topFive[1][i].assessment.riskLevel = "ok"
          /\ topFive[1][i].predictedToWorsen
          /\ topFive[1][i].minutesWithoutCommunication = 400
          /\ topFive[1][i].priorityScore = 820
    /\ \E i \in 1..Len(topFive[1]) :
          /\ topFive[1][i].assessment.riskLevel = "warning"
          /\ ~topFive[1][i].predictedToWorsen
          /\ topFive[1][i].priorityScore = 680
    /\ \E i \in 1..Len(topFive[1]) :
          /\ topFive[1][i].assessment.riskLevel = "critical"
          /\ topFive[1][i].minutesWithoutCommunication = 100
          /\ topFive[1][i].priorityScore = 1000

\* C21: queued items of equal composite priority stand in the order of the
\* input collection, and an assessment left out of the queue never precedes,
\* in the input, a queued one of the same composite priority.
C21_TiesKeepInputOrder ==
    QueueComputed =>
        LET q == topFive[1]
        IN  /\ \A i \in 1..Len(q) : \A j \in 1..Len(q) :
                  (/\ q[i].priorityScore = q[j].priorityScore
                   /\ q[i].assessment.vehicleId < q[j].assessment.vehicleId)
                      => q[i].position < q[j].position
            /\ \A k \in 1..Len(assessments) :
                  k \notin QueuedIds =>
                      \A i \in 1..Len(q) :
                          q[i].priorityScore = ClaimedPriority(assessments[k])
                              => q[i].assessment.vehicleId < k

\* two different assessments of one priority at the cut: the fifth place goes
\* to the one that came first, and an earlier tie is queued in input order
C21_Witness ==
    /\ QueueComputed
    /\ Len(assessments) = 6
    /\ Len(topFive[1]) = 5
    /\ 6 \notin QueuedIds
    /\ topFive[1][5].assessment.vehicleId = 5
    /\ topFive[1][5].priorityScore = ClaimedPriority(assessments[6])
    /\ assessments[5].riskScore # assessments[6].riskScore
    /\ topFive[1][1].priorityScore = topFive[1][2].priorityScore
    /\ topFive[1][1].assessment.vehicleId = 2
    /\ topFive[1][2].assessment.vehicleId = 4

(***************************************************************************)
(* Properties of the detail drawer (specification SpecDrawer).             *)
(***************************************************************************)
\* the results evaluateFuelRisk gives on the series of a vehicle
FuelResultsOf(id) == {evaluateFuelRisk(s, roundTieUp) : s \in FuelSeriesOf(id)}

\* the calls whose fetch settles in the step
SettledCalls ==
    {i \in 1..Len(fuelCalls) : fuelCalls[i].pc = "fetch" /\ fuelCalls'[i].pc = "done"}

\* the step is a call of loadFuelData for a vehicle id the cache holds
CachedCall ==
    /\ SettledCalls = {}
    /\ drawerOpen'
    /\ selectedVehicle' \in DrawerVehicleIds
    /\ CacheHas(fuelCache, selectedVehicle')

C22_Step ==
    /\ CachedCall =>
          /\ fuelCalls' = fuelCalls
          /\ fuelCache' = fuelCache
          /\ shownFuelResult' = fuelCache[selectedVehicle']
    /\ \A i \in SettledCalls :
          LET call == fuelCalls'[i]
          IN  IF call.outcome = "resolved"
              THEN /\ call.snapshots \in FuelSeriesOf(call.vehicleId)
                   /\ fuelCache'[call.vehicleId] =
                          <<evaluateFuelRisk(call.snapshots, roundTieUp)>>
                   /\ \A id \in DrawerVehicleIds \ {call.vehicleId} :
                          fuelCache'[id] = fuelCache[id]
              ELSE fuelCache' = fuelCache
    /\ SettledCalls = {} => fuelCache' = fuelCache
    /\ \A id \in DrawerVehicleIds :
          /\ CacheHas(fuelCache, id) => CacheHas(fuelCache', id)
          /\ CacheHas(fuelCache', id) => fuelCache'[id][1] \in FuelResultsOf(id)

\* C22: a call of loadFuelData for a cached vehicle id starts no fetch and
\* shows the cached result; a fetch that resolves writes, under the id of
\* its own call and under no other, the result evaluated from the snapshots
\* it got for that id, replacing what was there; a fetch that rejects, and
\* every other step (closing the drawer included), leaves the cache as it
\* is; no entry is ever removed.
C22_CacheKeyedLastWriterWins == [][C22_Step]_vars

\* two overlapping calls for A got different snapshots, the first one settled
\* last and its result replaced the other's; the drawer was closed since and
\* the entry is still there; a call for B failed and left no entry
C22_Witness ==
    /\ ~drawerOpen
    /\ Len(fuelCalls) = 3
    /\ fuelCalls[1].vehicleId = "A" /\ fuelCalls[1].outcome = "resolved"
    /\ fuelCalls[2].vehicleId = "A" /\ fuelCalls[2].outcome = "resolved"
    /\ fuelCalls[1].snapshots # fuelCalls[2].snapshots
    /\ fuelCalls[3].vehicleId = "B" /\ fuelCalls[3].outcome = "rejected"
    /\ fuelCache["A"] = <<evaluateFuelRisk(fuelCalls[1].snapshots, roundTieUp)>>
    /\ fuelCache["A"] # <<evaluateFuelRisk(fuelCalls[2].snapshots, roundTieUp)>>
    /\ ~CacheHas(fuelCache, "B")

\* the panel renders the result (lines 508-565: not while loading, not on
\* an error)
FuelResultDisplayed ==
    drawerOpen /\ ~fuelLoading /\ ~fuelError /\ shownFuelResult # <<>>

CurrentFetchInFlight ==
    \E i \in 1..Len(fuelCalls) :
        fuelCalls[i].pc = "fetch" /\ fuelCalls[i].vehicleId = selectedVehicle

\* C29: while the drawer is open, a displayed fuel result is a result of the
\* vehicle shown, and the loading indicator is on while a fetch for that
\* vehicle is in flight.
C29_DisplayedResultIsCurrent ==
    drawerOpen =>
        /\ FuelResultDisplayed => shownFuelResult[1] \in FuelResultsOf(selectedVehicle)
        /\ CurrentFetchInFlight => fuelLoading

(***************************************************************************)
(* Properties of the system view (specification SpecCycle).                *)
(***************************************************************************)
\* the points calculateRisk added per factor for entry i of cycle c
\* (riskEngine.ts:33-126; none of them on the path through its catch block)
ScorerPoints(c, i) ==
    LET v == cycles[c].roster[i]
        t == cycles[c].tasks[i]
    IN  IF EcoEventsThrow(t.ecoEvents) \/ WeatherThrows(t.weatherData)
        THEN [speed |-> 0, noUpdate |-> 0, eco |-> 0, weather |-> 0]
        ELSE [speed    |-> SpeedRisk(v).points,
              noUpdate |-> UpdateDelayRisk(v, now).points,
              eco      |-> EcoEventRisk(t.ecoEvents).points,
              weather  |-> WeatherRisk(t.weatherData, t.scoredWith).points]

RECURSIVE ScorerPointsSum(_, _, _)
ScorerPointsSum(c, n, factor) ==
    IF n = 0 THEN 0
    ELSE ScorerPointsSum(c, n - 1, factor) + ScorerPoints(c, n)[factor]

\* C23: for the published collection, each total of the system view is the
\* sum, over the collection, of the points calculateRisk added to the score
\* for that factor.
C23_TotalsAreScorerPoints ==
    publishedBy # 0 =>
        LET c == publishedBy
            n == Len(cycles[c].tasks)
        IN  /\ riskFactorTotals.speedTotal = ScorerPointsSum(c, n, "speed")
            /\ riskFactorTotals.noUpdateTotal = ScorerPointsSum(c, n, "noUpdate")
            /\ riskFactorTotals.ecoTotal = ScorerPointsSum(c, n, "eco")
            /\ riskFactorTotals.weatherTotal = ScorerPointsSum(c, n, "weather")

(***************************************************************************)
(* Properties of the fuelAnomaly endpoint (specification SpecAnomaly).     *)
(***************************************************************************)
\* the request was answered and the sensor API had answered with an array
AnomalyAnswered == anomalyResponse # <<>> /\ upstream.kind = "ok"

\* the fuel readings in time order, and the last two of them
FuelReadingsInOrder == findSensor(upstream.fuel)
PrevReading == FuelReadingsInOrder[Len(FuelReadingsInOrder) - 1]
CurrReading == FuelReadingsInOrder[Len(FuelReadingsInOrder)]

\* the drop between the last two readings in millilitres, their distance in
\* seconds
RawDropMl == PrevReading.v - CurrReading.v
RawDurationS == CurrReading.t - PrevReading.t

\* the speed readings closest in time to the last fuel reading
ClosestSpeedReadings ==
    LET sp == ValidPoints(upstream.speed)
        dist(k) == AbsDiff(sp[k].t, CurrReading.t)
    IN  {sp[k] : k \in {j \in 1..Len(sp) : \A i \in 1..Len(sp) : dist(j) <= dist(i)}}

\* the vehicle stands: the closest speed reading (the earliest of them if
\* several are equally close) is below 3 km/h
ClaimedStationary ==
    /\ ClosestSpeedReadings # {}
    /\ (CHOOSE p \in ClosestSpeedReadings :
            \A q \in ClosestSpeedReadings : p.t <= q.t).v < 3

IsInsufficientData(r) == r.http = 200 /\ r.status = "insufficient_data"
IsHighAnomaly(r) == r.status = "anomaly" /\ r.severity = "high" /\ r.riskImpact = 3
IsLowAnomaly(r) == r.status = "anomaly" /\ r.severity = "low" /\ r.riskImpact = 1
IsNormal(r) == r.http = 200 /\ r.status = "normal"

\* the verdict on a drop and a duration given in units of unitsPerLitre per
\* litre and unitsPerMinute per minute
ClassifiedAs(r, drop, unitsPerLitre, duration, unitsPerMinute) ==
    LET high == /\ ClaimedStationary
                /\ drop > 5 * unitsPerLitre
                /\ duration <= 10 * unitsPerMinute
        low  == /\ ClaimedStationary
                /\ drop >= 3 * unitsPerLitre
                /\ drop <= 5 * unitsPerLitre
    IN  /\ IsHighAnomaly(r) <=> high
        /\ IsLowAnomaly(r) <=> low
        /\ IsNormal(r) <=> ~high /\ ~low
        /\ r.http = 200

\* C24: with fewer than 2 fuel readings, or with the last two not in
\* increasing time order, the answer is insufficient_data; otherwise it is
\* anomaly/high (riskImpact 3) exactly when the vehicle stands, the drop is
\* above 5 L and the duration at most 10 minutes, anomaly/low (riskImpact 1)
\* exactly when it stands and the drop is from 3 to 5 L, and normal in every
\* other case.
C24_Classification ==
    AnomalyAnswered =>
        LET r == anomalyResponse[1]
        IN  IF Len(FuelReadingsInOrder) < 2 THEN IsInsufficientData(r)
            ELSE IF ~(PrevReading.t < CurrReading.t) THEN IsInsufficientData(r)
            ELSE ClassifiedAs(r, RawDropMl, 1000, RawDurationS, 60)

\* the whole numbers of units nearest to num / den
NearestUnits(num, den) ==
    {u \in {num \div den, (num \div den) + 1} : 2 * AbsDiff(u * den, num) <= den}

\* C24, amended: the drop is taken to the nearest 0.01 L and the duration to
\* the nearest 0.1 minute; with fewer than 2 fuel readings the answer is
\* insufficient_data; otherwise a drop that is not positive is answered
\* normal whatever the times of the readings, a positive drop over a
\* duration that is not positive is answered insufficient_data, and every
\* other pair is classified by the thresholds.
C24_ClassificationRounded ==
    AnomalyAnswered =>
        LET r == anomalyResponse[1]
        IN  IF Len(FuelReadingsInOrder) < 2 THEN IsInsufficientData(r)
            ELSE \E drop \in NearestUnits(RawDropMl, 10) :
                 \E duration \in NearestUnits(RawDurationS, 6) :
                     IF drop <= 0 THEN IsNormal(r)
                     ELSE IF duration <= 0 THEN IsInsufficientData(r)
                     ELSE /\ ClassifiedAs(r, drop, 100, duration, 10)
                          /\ IsNormal(r) \/ (r.fuelDrop = drop /\ r.durationMinutes = duration)

\* a drop of 6 L in 602 s next to a speed reading of 2 km/h: 10.0 minutes
\* after rounding, answered anomaly/high
C24_Witness ==
    /\ AnomalyAnswered
    /\ Len(FuelReadingsInOrder) = 2
    /\ RawDropMl = 6000
    /\ RawDurationS = 602
    /\ ClaimedStationary
    /\ IsHighAnomaly(anomalyResponse[1])
    /\ anomalyResponse[1].durationMinutes = 100

(***************************************************************************)
(* The critical-stale reason and the critical level (specification Spec).  *)
(***************************************************************************)
\* the severities of the events and the weather contribution are not negative
NonNegativeInputs ==
    /\ \A k \in 1..Len(ecoEvents) : ecoEvents[k].isNull \/ ecoEvents[k].EventSeverity >= 0
    /\ weatherData.bump >= 0

\* C25: an assessment calculateRisk produced from non-negative severities and
\* a non-negative weather contribution, if it carries a noUpdateCritical
\* reason, has riskScore >= 6 and riskLevel critical; so predictedToWorsen
\* and the filter of the priority panel are true exactly for the assessments
\* of critical level.
C25_CriticalStaleIsCritical ==
    (Returned /\ NonNegativeInputs) =>
        LET a == riskResult[1]
        IN  /\ ReasonsOf(a, {"noUpdateCritical"}) # <<>> =>
                  a.riskScore >= 6 /\ a.riskLevel = "critical"
            /\ isPredictedToWorsen(a) <=> a.riskLevel = "critical"
            /\ IsPriorityVehicle(a) <=> a.riskLevel = "critical"

\* nothing but the critical staleness: the score is exactly 6
C25_Witness ==
    /\ Returned
    /\ NonNegativeInputs
    /\ ReasonsOf(riskResult[1], {"noUpdateCritical"}) # <<>>
    /\ riskResult[1].riskScore = 6
    /\ riskResult[1].riskLevel = "critical"
    /\ isPredictedToWorsen(riskResult[1])

(***************************************************************************)
(* Properties of the queue on scorer output (specification SpecRank).      *)
(***************************************************************************)
\* the place of input assessment k in the queue
QueuePositionOf(k) ==
    (CHOOSE i \in 1..Len(topFive[1]) : topFive[1][i].assessment.vehicleId = k)

\* C26: an assessment of critical level has a composite priority strictly
\* greater than every assessment of warning or ok level, and stands before
\* it in the queue.
C26_CriticalOutranksOthers ==
    QueueComputed =>
        \A i \in 1..Len(assessments) : \A j \in 1..Len(assessments) :
            (/\ assessments[i].riskLevel = "critical"
             /\ assessments[j].riskLevel # "critical")
                => /\ ClaimedPriority(assessments[i]) > ClaimedPriority(assessments[j])
                   /\ QueuePositionOf(i) < QueuePositionOf(j)

\* a warning of score 5 that has been silent for 300 minutes or more
SilentWarningOfScoreFive(a) ==
    a.riskLevel = "warning" /\ a.riskScore = 5 /\ ClaimedMinutes(a) >= 300

\* C26, amended: a critical assessment outranks every assessment of warning
\* or ok level except a warning of score 5 silent for 300 to 360 minutes,
\* whose composite priority lies between 15 and 16, where the critical
\* assessment has at least 15.
C26_CriticalOutranksAllButSilentWarnings ==
    QueueComputed =>
        \A i \in 1..Len(assessments) : \A j \in 1..Len(assessments) :
            (/\ assessments[i].riskLevel = "critical"
             /\ assessments[j].riskLevel # "critical")
                => /\ ClaimedPriority(assessments[i]) >= 15 * 60
                   /\ IF SilentWarningOfScoreFive(assessments[j])
                      THEN /\ ClaimedPriority(assessments[j]) >= 15 * 60
                           /\ ClaimedPriority(assessments[j]) <= 16 * 60
                           /\ ClaimedMinutes(assessments[j]) <= 360
                      ELSE /\ ClaimedPriority(assessments[i])
                                  > ClaimedPriority(assessments[j])
                           /\ QueuePositionOf(i) < QueuePositionOf(j)

\* a critical assessment of score 6 that was just heard from, after a warning
\* of score 5 silent for 299 minutes: 15 against 14.98
C26_Witness ==
    /\ QueueComputed
    /\ assessments[2].riskLevel = "critical"
    /\ assessments[2].riskScore = 6
    /\ ClaimedPriority(assessments[2]) = 15 * 60
    /\ assessments[1].riskLevel = "warning"
    /\ assessments[1].riskScore = 5
    /\ ClaimedMinutes(assessments[1]) = 299
    /\ topFive[1][1].assessment.vehicleId = 2

(***************************************************************************)
(* Overlapping aggregation cycles (specification SpecCycle).               *)
(***************************************************************************)
AllCyclesDone == \A c \in 1..Len(cycles) : cycles[c].pc = "done"

CycleStarted(c) == c <= Len(cycles)

CycleEnded(c) == c <= Len(cycles) /\ cycles[c].pc = "done"

\* call c ends in this step without reaching its per-vehicle tasks
EndsBeforeTasks(c) ==
    /\ CycleStarted(c)
    /\ cycles[c].pc # "done"
    /\ cycles'[c].pc = "done"
    /\ cycles'[c].outcome \in {"noGroups", "fetchFailed"}

\* C30: every call of loadData that has started ends (a call that has ended
\* stays ended, so it is enough that again and again no started call is still
\* running), and when it has ended loading is false; a call that ends because no group exists or because the
\* group or roster fetch was rejected leaves the published collection as it
\* was.
C30_CycleEndsLoadingCleared ==
    /\ []<>(\A c \in 1..MaxCycles : CycleStarted(c) => (CycleEnded(c) /\ loading = FALSE))
    /\ [](\A c \in 1..MaxCycles : CycleEnded(c) => loading = FALSE)
    /\ [][\A c \in 1..MaxCycles :
             EndsBeforeTasks(c) => riskAssessments' = riskAssessments]_vars

\* a second call has ended on a rejected fetch after the first had published
\* a non-empty collection, which is still the published one
C30_Witness ==
    /\ Len(cycles) >= 2
    /\ cycles[1].outcome = "published"
    /\ cycles[1].result # <<>>
    /\ cycles[2].outcome \in {"noGroups", "fetchFailed"}
    /\ riskAssessments = cycles[1].result
    /\ loading = FALSE

=============================================================================
